---------------------------- MODULE Spec2Model ----------------------------
(***************************************************************************)
(* A model of the lcd-async display driver core: the generic parallel bus  *)
(* (src/interface/parallel.rs), the serial and parallel transports         *)
(* (src/interface/spi.rs, src/interface/parallel.rs) and the Display       *)
(* orchestrator (src/lib.rs) over the ILI9225 controller hooks             *)
(* (src/models/ili9225.rs).                                                *)
(*                                                                         *)
(* Every handler is one action.  A handler is a straight-line sequence of  *)
(* fallible hardware operations (pin writes, SPI writes); the model runs   *)
(* it on a machine record `s` and logs every hardware operation it         *)
(* performs in `s.ev`.  A call's fault plan is (f, hit): the f-th hardware *)
(* operation of the call fails (f = 0: none does), and `hit` says whether  *)
(* the failed pin operation changed its pin all the same.                  *)
(***************************************************************************)
EXTENDS Integers, Sequences, FiniteSets, TLC

VARIABLES
    kind,       \* InterfaceKind of the bus / transport under test
    pins,       \* levels of the data pins P0..P(n-1): [0..n-1 -> BOOLEAN]
    last,       \* GenericxBitBus.last: <<>> is None, <<v>> is Some(v)
    dc,         \* level of the data/command selector pin
    wr,         \* level of the write-enable pin
    call,       \* the most recent call: operation, arguments, events, result
    prev,       \* summary of the call before it
    faults,     \* number of calls that failed so far
    options,    \* Display.options: the ModelOptions, with the orientation
    overflow_checks, \* the build panics on integer overflow (else it wraps)
    framebuffer_size, \* M::FRAMEBUFFER_SIZE of the controller of the display
    sleeping,   \* Display.sleeping
    framebuf,   \* a RawFrameBuf: its buffer, width, height, bytes per pixel
    sharing,    \* tasks sharing one transport: the lock, their progress and
                \* the calls the transport received
    take_skip   \* a TakeSkip: its iterator, take, take_remaining, skip

vars == <<kind, pins, last, dc, wr, call, prev, faults, options,
          overflow_checks, framebuffer_size, sleeping, framebuf, sharing,
          take_skip>>

\* At most this many calls of a run fail.
MaxFaults == 1

-----------------------------------------------------------------------------
(* Words and bits                                                          *)

\* Number of data pins of the bus of an interface kind (0: no parallel bus).
BusWidth(k) ==
    CASE k = "Parallel8Bit"  -> 8
      [] k = "Parallel16Bit" -> 16
      [] OTHER               -> 0

Pow2(n) == 2 ^ n

\* `value & (1 << i) != 0`
Bit(value, i) == (value \div Pow2(i)) % 2 = 1

\* `value ^ old_value` on n-bit words
RECURSIVE BitXor(_, _, _)
BitXor(a, b, n) ==
    IF n = 0 THEN 0
    ELSE (((a % 2) + (b % 2)) % 2) + 2 * BitXor(a \div 2, b \div 2, n - 1)

\* `!0` on n-bit words
AllOnes(n) == Pow2(n) - 1

\* The words the calls are made with: zero, the spec's 0x2A and all ones.
Words(n) == {0, 42, AllOnes(n)}

\* Pin levels at construction: `new` does not touch the pins, so they are
\* whatever the hardware left them at.
InitPins(n) ==
    { [i \in 0 .. n - 1 |-> FALSE],
      [i \in 0 .. n - 1 |-> i % 2 = 0] }

\* The word the pin levels spell, pin 0 the least significant bit.
RECURSIVE PinsWord(_, _)
PinsWord(p, n) ==
    IF n = 0 THEN 0
    ELSE (IF p[n - 1] THEN Pow2(n - 1) ELSE 0) + PinsWord(p, n - 1)

-----------------------------------------------------------------------------
(* Results and events                                                      *)

None == <<>>
Some(v) == <<v>>

\* Ok(()) and the error values.  `tag` is the enum variant the error is
\* wrapped in ("Pin": the raw OutputPin error, not wrapped), `src` the
\* device that failed and `pin` the index of a failing data pin.
Ok == [tag |-> "Ok", src |-> "", pin |-> 0]
PinError(src, i) == [tag |-> "Pin", src |-> src, pin |-> i]
IsOk(r) == r.tag = "Ok"

\* An arithmetic overflow in a build with overflow checks: the call does
\* not return.
Panic == [tag |-> "Panic", src |-> "overflow", pin |-> 0]
Panicked(r) == r.tag = "Panic"

\* `.map_err(Variant)`
MapErr(variant, r) == IF IsOk(r) THEN r ELSE [r EXCEPT !.tag = variant]

\* A machine: the hardware and bus state a handler runs on, its fault plan
\* and what it did so far: the hardware operations (ev), the calls of
\* Interface methods (di) and the calls of controller hooks (hooks).
Machine(f, hit) ==
    [pins |-> pins, last |-> last, dc |-> dc, wr |-> wr,
     ev |-> <<>>, di |-> <<>>, hooks |-> <<>>, cnt |-> 0, err |-> Ok,
     f |-> f, hit |-> hit]

\* `?`: the rest of the handler runs only while no error was returned.
Running(s) == IsOk(s.err)

-----------------------------------------------------------------------------
(* Generic8BitBus / Generic16BitBus                                        *)

\* self.pins.$x.set_high() / set_low(): one OutputPin operation on data pin
\* i.  It is the (cnt+1)-th hardware operation of the call and fails when
\* the fault plan says so; a failed operation changed the pin iff `hit`.
set_pin(s, i, lvl) ==
    LET k     == s.cnt + 1
        fails == k = s.f
    IN  [s EXCEPT
            !.cnt  = k,
            !.pins = IF ~fails \/ s.hit THEN [@ EXCEPT ![i] = lvl] ELSE @,
            !.ev   = Append(@, [k |-> "pin", id |-> i, lvl |-> lvl,
                                ok |-> ~fails, data |-> <<>>,
                                dcAt |-> s.dc, busAt |-> <<>>]),
            !.err  = IF fails THEN PinError("data", i) ELSE Ok]

\* The macro's unrolled `$( ... )*` block for pins i .. n-1.
RECURSIVE pin_loop(_, _, _, _, _)

\* Mutant: set_high and set_low exchanged.
pin_loop_inverted(s, value, changed, i, n) ==
    IF i = n \/ ~Running(s) THEN s
    ELSE pin_loop(IF Bit(changed, i) THEN set_pin(s, i, ~Bit(value, i)) ELSE s,
                  value, changed, i + 1, n)

pin_loop(s, value, changed, i, n) ==
    IF i = n \/ ~Running(s) THEN s
    ELSE pin_loop(IF Bit(changed, i) THEN set_pin(s, i, Bit(value, i)) ELSE s,
                  value, changed, i + 1, n)

\* `if self.last == Some(value) { return Ok(()) }`
SetValueSkips(s, value) == s.last = Some(value)

\* Mutant: `None => 0`, a new bus is taken to hold the word zero.
Changed_none_zero(lastv, value, n) ==
    IF lastv = None THEN BitXor(value, 0, n) ELSE BitXor(value, lastv[1], n)

\* Changed comparing the low eight bits only, whatever the width of the bus.
Changed_low_byte(lastv, value, n) ==
    IF lastv = None THEN AllOnes(n)
    ELSE BitXor(value % 256, lastv[1] % 256, n)

\* `let changed = match last { Some(old) => value ^ old, None => !0 }`
Changed(lastv, value, n) ==
    IF lastv = None THEN AllOnes(n) ELSE BitXor(value, lastv[1], n)

\* Mutant: every call rewrites every pin (no early return, no diff).
set_value_rewrite(s, value, n) ==
    IF ~Running(s) THEN s
    ELSE LET done == pin_loop([s EXCEPT !.last = None], value, AllOnes(n), 0, n)
         IN  IF Running(done) THEN [done EXCEPT !.last = Some(value)]
             ELSE done

\* Mutant: `self.last` is read, not taken, so a failed call leaves it set.
set_value_keep_last(s, value, n) ==
    IF ~Running(s) \/ SetValueSkips(s, value) THEN s
    ELSE LET done == pin_loop(s, value, Changed(s.last, value, n), 0, n)
         IN  IF Running(done) THEN [done EXCEPT !.last = Some(value)]
             ELSE done

\* OutputBus::set_value of a generic bus of n pins.
set_value(s, value, n) ==
    IF ~Running(s) \/ SetValueSkips(s, value) THEN s
    ELSE LET taken == [s EXCEPT !.last = None]       \* self.last.take()
             done  == pin_loop(taken, value, Changed(s.last, value, n), 0, n)
         IN  IF Running(done) THEN [done EXCEPT !.last = Some(value)]
             ELSE done

-----------------------------------------------------------------------------
(* Options                                                                 *)

Rotations == {"Deg0", "Deg90", "Deg180", "Deg270"}
Orientations == [rotation : Rotations, mirrored : BOOLEAN]

\* <ILI9225Rgb565 as Model>::FRAMEBUFFER_SIZE
FRAMEBUFFER_SIZE == <<176, 220>>

\* The options of a display set up with its defaults: the whole framebuffer,
\* no offset, no rotation.
DefaultOptions ==
    [orientation    |-> [rotation |-> "Deg0", mirrored |-> FALSE],
     display_size   |-> FRAMEBUFFER_SIZE,
     display_offset |-> <<0, 0>>,
     color_order    |-> "Rgb",
     invert_colors  |-> "Normal"]

\* No framebuffer: the value of `framebuf` where none is in use.
NoFrameBuf == [buffer |-> <<>>, width |-> 0, height |-> 0, bpp |-> 0]

\* No tasks: the value of `sharing` where the transport has one user.
NoSharing == [locking |-> FALSE, holder |-> 0, issued |-> <<>>, wire |-> <<>>]

\* No TakeSkip: the value of `take_skip` where none was made.
NoTakeSkip ==
    [iter |-> <<>>, take |-> <<0, 0>>, take_remaining |-> <<0, 0>>, skip |-> 0]

-----------------------------------------------------------------------------
(* Calls                                                                   *)

\* The record of a call: what was called with what, what the bus remembered
\* when it was called, what it did and what it returned.
Call(op, cmd, args, s) ==
    [op |-> op, cmd |-> cmd, args |-> args, at |-> <<>>, lastBefore |-> last,
     ev |-> s.ev, di |-> s.di, hooks |-> s.hooks, res |-> s.err]

NoCall(op) ==
    [op |-> op, cmd |-> 0, args |-> <<>>, at |-> <<>>, lastBefore |-> last,
     ev |-> <<>>, di |-> <<>>, hooks |-> <<>>, res |-> Ok]

\* What is kept of the call before the most recent one: its operation, its
\* word and whether it succeeded, of a failed set_value also what the bus
\* remembered before it, and the level it left the selector at.
Summary(c) ==
    [op |-> c.op, ok |-> IsOk(c.res), cmd |-> c.cmd,
     lastBefore |-> IF c.op = "set_value" /\ ~IsOk(c.res)
                    THEN c.lastBefore ELSE None,
     dc |-> dc]

\* The handler of call c ran to machine s: the hardware is as it left it.
CommitCall(c, s) ==
    /\ faults < MaxFaults \/ Running(s) \/ Panicked(s.err)
    /\ pins' = s.pins
    /\ last' = s.last
    /\ dc' = s.dc
    /\ wr' = s.wr
    /\ call' = c
    /\ prev' = Summary(call)
    /\ faults' = IF Running(s) \/ Panicked(s.err) THEN faults ELSE faults + 1
    /\ UNCHANGED <<kind, overflow_checks, framebuffer_size, framebuf, sharing,
                   take_skip>>

Commit(op, cmd, args, s) == CommitCall(Call(op, cmd, args, s), s)

\* The fault plans of a handler that performs `ops` operations when none
\* fails: no fault, or (while the run may still fail) a fault at any of
\* them, which changed the pin or not.
Faults(ops) ==
    {<<0, FALSE>>} \cup
    (IF faults < MaxFaults THEN (1 .. ops) \X BOOLEAN ELSE {})

-----------------------------------------------------------------------------
(* The bus on its own                                                      *)

InitBus ==
    /\ kind \in {"Parallel8Bit", "Parallel16Bit"}
    /\ pins \in InitPins(BusWidth(kind))
    /\ last = None                       \* new: Self { pins, last: None }
    /\ dc = FALSE
    /\ wr = FALSE
    /\ call = [op |-> "new", cmd |-> 0, args |-> <<>>, at |-> <<>>,
               lastBefore |-> None, ev |-> <<>>, di |-> <<>>, hooks |-> <<>>,
               res |-> Ok]
    /\ prev = [op |-> "none", ok |-> TRUE, cmd |-> 0, lastBefore |-> None,
               dc |-> dc]
    /\ faults = 0
    /\ options = DefaultOptions
    /\ overflow_checks = FALSE
    /\ framebuffer_size = FRAMEBUFFER_SIZE
    /\ sleeping = FALSE
    /\ sharing = NoSharing
    /\ take_skip = NoTakeSkip
    /\ framebuf = NoFrameBuf

BusLive == call.op # "release"

\* bus.set_value(value), with any fault plan
BusSetValue ==
    /\ BusLive
    /\ \E value \in Words(BusWidth(kind)) :
         \E fh \in Faults(set_value(Machine(0, FALSE), value, BusWidth(kind)).cnt) :
            /\ Commit("set_value", value, <<>>,
                      set_value(Machine(fh[1], fh[2]), value, BusWidth(kind)))
            /\ UNCHANGED <<options, sleeping>>

\* bus.release(): hands the pins back
BusRelease ==
    /\ BusLive
    /\ call' = NoCall("release")
    /\ prev' = Summary(call)
    /\ UNCHANGED <<kind, pins, last, dc, wr, faults, options, overflow_checks,
                   framebuffer_size, sleeping, framebuf, sharing,
                   take_skip>>

\* GenericxBitBus::new(pins) on the released pins
BusNew ==
    /\ ~BusLive
    /\ last' = None
    /\ call' = NoCall("new")
    /\ prev' = Summary(call)
    /\ UNCHANGED <<kind, pins, dc, wr, faults, options, overflow_checks,
                   framebuffer_size, sleeping, framebuf, sharing,
                   take_skip>>

NextBus == BusSetValue \/ BusRelease \/ BusNew

SpecBus == InitBus /\ [][NextBus]_vars

-----------------------------------------------------------------------------
(* SpiInterface and ParallelInterface                                      *)

\* `step.map_err(Variant)?` after s: t is s after the step; a step of a
\* handler that already returned is not performed.
Try(variant, s, t) ==
    IF Running(s) THEN [t EXCEPT !.err = MapErr(variant, t.err)] ELSE s

\* One operation on a control pin or the SPI device: the (cnt+1)-th
\* hardware operation of the call, logged with the selector level it
\* happened at and, for a rising write-enable edge, the word on the data
\* pins.
Operation(s, e) ==
    [s EXCEPT !.cnt = s.cnt + 1,
              !.ev  = Append(@, [e EXCEPT !.ok = s.cnt + 1 # s.f]),
              !.err = IF s.cnt + 1 = s.f THEN PinError(e.k, 0) ELSE Ok]

Fails(s) == s.cnt + 1 = s.f

\* self.dc.set_low() / set_high()
set_dc(s, lvl) ==
    LET now == IF ~Fails(s) \/ s.hit THEN lvl ELSE s.dc
    IN  [Operation(s, [k |-> "dc", id |-> 0, lvl |-> lvl, ok |-> TRUE,
                       data |-> <<>>, dcAt |-> now, busAt |-> <<>>])
            EXCEPT !.dc = now]

\* self.wr.set_low() / set_high()
set_wr(s, lvl, n) ==
    LET now == IF ~Fails(s) \/ s.hit THEN lvl ELSE s.wr
    IN  [Operation(s, [k |-> "wr", id |-> 0, lvl |-> lvl, ok |-> TRUE,
                       data |-> <<>>, dcAt |-> s.dc,
                       busAt |-> IF lvl THEN <<PinsWord(s.pins, n)>> ELSE <<>>])
            EXCEPT !.wr = now]

\* self.spi.write(data).await
spi_write(s, data) ==
    Operation(s, [k |-> "spi", id |-> 0, lvl |-> FALSE, ok |-> TRUE,
                  data |-> data, dcAt |-> s.dc, busAt |-> <<>>])

\* Mutant: the selector is not raised again after the instruction byte.
spi_send_command_no_raise(s, command, args) ==
    LET s1 == Try("Dc", s, set_dc(s, FALSE))
        s2 == Try("Spi", s1, spi_write(s1, <<command>>))
    IN  Try("Spi", s2, spi_write(s2, args))

\* Mutant: a selector failure is reported as a bus failure.
spi_send_command_mistagged(s, command, args) ==
    LET s1 == Try("Dc", s, set_dc(s, FALSE))
        s2 == Try("Spi", s1, spi_write(s1, <<command>>))
        s3 == Try("Spi", s2, set_dc(s2, TRUE))
    IN  Try("Spi", s3, spi_write(s3, args))

\* SpiInterface::send_command
spi_send_command(s, command, args) ==
    LET s1 == Try("Dc", s, set_dc(s, FALSE))
        s2 == Try("Spi", s1, spi_write(s1, <<command>>))
        s3 == Try("Dc", s2, set_dc(s2, TRUE))
    IN  Try("Spi", s3, spi_write(s3, args))

\* Mutant: the data goes out one bus write per word.
RECURSIVE spi_send_data_slice_bytewise(_, _)
spi_send_data_slice_bytewise(s, data) ==
    IF data = <<>> \/ ~Running(s) THEN s
    ELSE spi_send_data_slice_bytewise(
            Try("Spi", s, spi_write(s, <<Head(data)>>)), Tail(data))

\* SpiInterface::send_data_slice
spi_send_data_slice(s, data) == Try("Spi", s, spi_write(s, data))

\* Mutant: the word is put on the bus before write-enable goes low.
send_word_late_strobe(s, word, n) ==
    LET s1 == Try("Bus", s, set_value(s, word, n))
        s2 == Try("Wr", s1, set_wr(s1, FALSE, n))
    IN  Try("Wr", s2, set_wr(s2, TRUE, n))

\* ParallelInterface::send_word
send_word(s, word, n) ==
    LET s1 == Try("Wr", s, set_wr(s, FALSE, n))
        s2 == Try("Bus", s1, set_value(s1, word, n))
    IN  Try("Wr", s2, set_wr(s2, TRUE, n))

\* `for &word in words { self.send_word(word)?; }`
RECURSIVE send_words(_, _, _)

\* Mutant: a failed word is sent once more before the error is returned.
send_words_retry(s, words, n) ==
    IF words = <<>> \/ ~Running(s) THEN s
    ELSE LET t == send_word(s, Head(words), n)
         IN  IF Running(t) THEN send_words(t, Tail(words), n)
             ELSE LET u == send_word([t EXCEPT !.err = Ok], Head(words), n)
                  IN  [u EXCEPT !.err = t.err]

\* send_words leaving out the strobe of a word the bus already holds.
RECURSIVE send_words_once(_, _, _)
send_words_once(s, words, n) ==
    IF words = <<>> \/ ~Running(s) THEN s
    ELSE IF s.last = Some(Head(words))
         THEN send_words_once(s, Tail(words), n)
         ELSE send_words_once(send_word(s, Head(words), n), Tail(words), n)

send_words(s, words, n) ==
    IF words = <<>> \/ ~Running(s) THEN s
    ELSE send_words(send_word(s, Head(words), n), Tail(words), n)

\* Mutant: the selector stays low for the parameter bytes.
par_send_command_no_raise(s, command, args, n) ==
    LET s1 == Try("Dc", s, set_dc(s, FALSE))
        s2 == send_word(s1, command, n)
    IN  send_words(s2, args, n)

\* ParallelInterface::send_command
par_send_command(s, command, args, n) ==
    LET s1 == Try("Dc", s, set_dc(s, FALSE))
        s2 == send_word(s1, command, n)        \* BUS::Word::from(command)
        s3 == Try("Dc", s2, set_dc(s2, TRUE))
    IN  send_words(s3, args, n)

\* ParallelInterface::send_data_slice
par_send_data_slice(s, data, n) == send_words(s, data, n)

\* A call of an Interface method, as the transport receives it.
Issued(s, op, command, args) ==
    [s EXCEPT !.di = Append(@, [op |-> op, cmd |-> command, args |-> args])]

\* Interface::send_command and Interface::send_data_slice of the transport
\* of kind k.  The transport "Mock" is _mock::MockDisplayInterface: it does
\* nothing and cannot fail.
send_command(s, k, command, args) ==
    IF ~Running(s) THEN s
    ELSE IF k = "Mock" THEN Issued(s, "send_command", command, args)
    ELSE IF k = "Serial4Line"
         THEN spi_send_command(Issued(s, "send_command", command, args),
                               command, args)
         ELSE par_send_command(Issued(s, "send_command", command, args),
                               command, args, BusWidth(k))

send_data_slice(s, k, data) ==
    IF ~Running(s) THEN s
    ELSE IF k = "Mock" THEN Issued(s, "send_data", 0, data)
    ELSE IF k = "Serial4Line"
         THEN spi_send_data_slice(Issued(s, "send_data", 0, data), data)
         ELSE par_send_data_slice(Issued(s, "send_data", 0, data), data,
                                  BusWidth(k))

-----------------------------------------------------------------------------
(* The transports on their own                                             *)

\* Longest parameter list and longest run of equal data words of a call
\* (the spec's example command, with four parameters, is added to the
\* parameter lists).
MaxArgs == 1
MaxData == 2

SeqsUpTo(S, n) == UNION { [1 .. k -> S] : k \in 0 .. n }

Commands == {42}
ArgBytes == {239}
ArgLists == SeqsUpTo(ArgBytes, MaxArgs) \cup {<<0, 0, 0, 239>>}

\* The words of the transport of kind k: u8 on the serial and the 8-bit
\* bus, u16 on the 16-bit bus.
WordBits(k) == IF k = "Serial4Line" THEN 8 ELSE BusWidth(k)
\* The data slices: runs of one word of every length, and the slices of two
\* different words in both orders.
DataSlices(k) ==
    LET ones == AllOnes(WordBits(k))
    IN  SeqsUpTo({ones}, MaxData) \cup {<<42>>, <<42, ones>>, <<ones, 42>>}

InitIface ==
    /\ kind \in {"Serial4Line", "Parallel8Bit"}
    /\ pins \in InitPins(BusWidth(kind))
    /\ last = None
    /\ dc \in BOOLEAN
    /\ wr \in BOOLEAN
    /\ call = [op |-> "new", cmd |-> 0, args |-> <<>>, at |-> <<>>,
               lastBefore |-> None, ev |-> <<>>, di |-> <<>>, hooks |-> <<>>,
               res |-> Ok]
    /\ prev = [op |-> "none", ok |-> TRUE, cmd |-> 0, lastBefore |-> None,
               dc |-> dc]
    /\ faults = 0
    /\ options = DefaultOptions
    /\ overflow_checks = FALSE
    /\ framebuffer_size = FRAMEBUFFER_SIZE
    /\ sleeping = FALSE
    /\ sharing = NoSharing
    /\ take_skip = NoTakeSkip
    /\ framebuf = NoFrameBuf

\* di.send_command(command, args), with any fault plan
SendCommand ==
    \E command \in Commands, args \in ArgLists :
        \E fh \in Faults(send_command(Machine(0, FALSE), kind, command, args).cnt) :
            /\ Commit("send_command", command, args,
                      send_command(Machine(fh[1], fh[2]), kind, command, args))
            /\ UNCHANGED <<options, sleeping>>

\* di.send_data_slice(data), with any fault plan
SendData ==
    \E data \in DataSlices(kind) :
        \E fh \in Faults(send_data_slice(Machine(0, FALSE), kind, data).cnt) :
            /\ Commit("send_data", 0, data,
                      send_data_slice(Machine(fh[1], fh[2]), kind, data))
            /\ UNCHANGED <<options, sleeping>>

NextIface == SendCommand \/ SendData

SpecIface == InitIface /\ [][NextIface]_vars

-----------------------------------------------------------------------------
(* Display over the ILI9225                                                *)

\* u16 arithmetic: a result outside the type overflows; a build with
\* overflow checks panics there, a build without them wraps.
OverflowU16(v) == v < 0 \/ v >= 2 ^ 16
WrapU16(v) == v % (2 ^ 16)

\* u16::to_be_bytes
to_be_bytes(v) == <<v \div 256, v % 256>>

\* Rotation::is_vertical
is_vertical(rotation) == rotation \in {"Deg90", "Deg270"}

\* MemoryMapping::from(Orientation)
MemoryMapping(orientation) ==
    LET r == orientation.rotation
    IN  [reverse_rows          |-> r \in {"Deg180", "Deg270"},
         reverse_columns       |-> (r \in {"Deg90", "Deg180"}) # orientation.mirrored,
         swap_rows_and_columns |-> is_vertical(r)]

\* InterfaceExt::write_raw: the instruction and its parameter bytes go to
\* the transport as one command.
write_raw(s, k, instruction, params) == send_command(s, k, instruction, params)

\* dcs_basic_command!: a command of an instruction byte and no parameters.
dcs_basic_command(instr) == [instruction |-> instr, params |-> <<>>]

\* Initiate Framebuffer Memory Write (0x22)
WriteMemoryStartILI9225 == dcs_basic_command(34)

\* InterfaceExt::write_command: the command's instruction with the
\* parameters it fills in.
write_command(s, k, command) ==
    write_raw(s, k, command.instruction, command.params)

\* `di.write_raw(..).await?; di.write_raw(..).await?; ...`: the commands
\* in order, up to the first that fails.
RECURSIVE write_raws(_, _, _)
write_raws(s, k, cmds) ==
    IF cmds = <<>> THEN s
    ELSE write_raws(write_raw(s, k, Head(cmds).instruction, Head(cmds).params),
                    k, Tail(cmds))

\* options_write_cmd taking the mirroring into the driver output byte.
options_write_cmd_mirrored(s, k, o) ==
    LET driver_high_byte == CASE o.orientation.rotation = "Deg0"   -> 1
                              [] o.orientation.rotation = "Deg90"  -> 0
                              [] o.orientation.rotation = "Deg180" -> 2
                              [] o.orientation.rotation = "Deg270" -> 3
        color_order_byte == IF o.color_order = "Rgb" THEN 0 ELSE 16
        entry_low_byte   == IF is_vertical(o.orientation.rotation)
                            THEN 56 ELSE 48
    IN  write_raws(s, k, <<[instruction |-> 1,
                            params |-> <<IF o.orientation.mirrored
                                         THEN (driver_high_byte + 2) % 4
                                         ELSE driver_high_byte, 28>>],
                           [instruction |-> 3,
                            params |-> <<color_order_byte, entry_low_byte>>]>>)

\* options_write_cmd: DRIVER_OUTPUT_CTRL (0x01), then ENTRY_MODE (0x03)
options_write_cmd(s, k, o) ==
    LET driver_high_byte == CASE o.orientation.rotation = "Deg0"   -> 1
                              [] o.orientation.rotation = "Deg90"  -> 0
                              [] o.orientation.rotation = "Deg180" -> 2
                              [] o.orientation.rotation = "Deg270" -> 3
        color_order_byte == IF o.color_order = "Rgb" THEN 0 ELSE 16
        entry_low_byte   == IF is_vertical(o.orientation.rotation)
                            THEN 56 ELSE 48
    IN  write_raws(s, k, <<[instruction |-> 1,
                            params |-> <<driver_high_byte, 28>>],
                           [instruction |-> 3,
                            params |-> <<color_order_byte, entry_low_byte>>]>>)

\* <ILI9225Rgb565 as Model>::update_options
update_options(s, k, o) == options_write_cmd(s, k, o)

\* update_address_window writing the registers in the order of 0 degrees
\* under every rotation.
update_address_window_unrotated(s, k, rotation, sx, sy, ex, ey) ==
    write_raws(s, k,
        <<[instruction |-> 55, params |-> to_be_bytes(sx)],
          [instruction |-> 54, params |-> to_be_bytes(ex)],
          [instruction |-> 57, params |-> to_be_bytes(sy)],
          [instruction |-> 56, params |-> to_be_bytes(ey)],
          [instruction |-> 32, params |-> to_be_bytes(sx)],
          [instruction |-> 33, params |-> to_be_bytes(sy)]>>)

\* <ILI9225Rgb565 as Model>::update_address_window: the window registers
\* 0x37, 0x36, 0x39, 0x38 and the RAM address registers 0x20, 0x21.
update_address_window(s, k, rotation, sx, sy, ex, ey) ==
    write_raws(s, k,
        IF rotation \in {"Deg0", "Deg180"}
        THEN <<[instruction |-> 55, params |-> to_be_bytes(sx)],
               [instruction |-> 54, params |-> to_be_bytes(ex)],
               [instruction |-> 57, params |-> to_be_bytes(sy)],
               [instruction |-> 56, params |-> to_be_bytes(ey)],
               [instruction |-> 32, params |-> to_be_bytes(sx)],
               [instruction |-> 33, params |-> to_be_bytes(sy)]>>
        ELSE <<[instruction |-> 57, params |-> to_be_bytes(sx)],
               [instruction |-> 56, params |-> to_be_bytes(ex)],
               [instruction |-> 55, params |-> to_be_bytes(sy)],
               [instruction |-> 54, params |-> to_be_bytes(ey)],
               [instruction |-> 33, params |-> to_be_bytes(sx)],
               [instruction |-> 32, params |-> to_be_bytes(sy)]>>)

\* <ILI9225Rgb565 as Model>::write_memory_start
write_memory_start(s, k) == write_command(s, k, WriteMemoryStartILI9225)

\* PhysicalOffset swapping the axes before it reverses them.
PhysicalOffset_swap_first(o, fb) ==
    LET mapping == MemoryMapping(o.orientation)
        offset  == IF mapping.swap_rows_and_columns
                   THEN <<o.display_offset[2], o.display_offset[1]>>
                   ELSE o.display_offset
        sum0    == o.display_size[1] + offset[1]
        rev0    == fb[1] - WrapU16(sum0)
        sum1    == o.display_size[2] + offset[2]
        rev1    == fb[2] - WrapU16(sum1)
    IN  [v   |-> <<IF mapping.reverse_columns THEN WrapU16(rev0)
                   ELSE offset[1],
                   IF mapping.reverse_rows THEN WrapU16(rev1)
                   ELSE offset[2]>>,
         ovf |-> \/ mapping.reverse_columns
                    /\ (OverflowU16(sum0) \/ OverflowU16(rev0))
                 \/ mapping.reverse_rows
                    /\ (OverflowU16(sum1) \/ OverflowU16(rev1))]

\* PhysicalOffset reversing the columns from the row offset.
PhysicalOffset_crossed(o, fb) ==
    LET mapping == MemoryMapping(o.orientation)
        offset  == o.display_offset
        sum0    == o.display_size[1] + offset[2]
        rev0    == fb[1] - WrapU16(sum0)
        sum1    == o.display_size[2] + offset[2]
        rev1    == fb[2] - WrapU16(sum1)
        off0    == IF mapping.reverse_columns THEN WrapU16(rev0) ELSE offset[1]
        off1    == IF mapping.reverse_rows THEN WrapU16(rev1) ELSE offset[2]
    IN  [v   |-> IF mapping.swap_rows_and_columns THEN <<off1, off0>>
                 ELSE <<off0, off1>>,
         ovf |-> \/ mapping.reverse_columns
                    /\ (OverflowU16(sum0) \/ OverflowU16(rev0))
                 \/ mapping.reverse_rows
                    /\ (OverflowU16(sum1) \/ OverflowU16(rev1))]

\* PhysicalOffset reversing an axis without the size of the panel.
PhysicalOffset_size_left_out(o, fb) ==
    LET mapping == MemoryMapping(o.orientation)
        offset  == o.display_offset
        rev0    == fb[1] - offset[1]
        rev1    == fb[2] - offset[2]
        off0    == IF mapping.reverse_columns THEN WrapU16(rev0) ELSE offset[1]
        off1    == IF mapping.reverse_rows THEN WrapU16(rev1) ELSE offset[2]
    IN  [v   |-> IF mapping.swap_rows_and_columns THEN <<off1, off0>>
                 ELSE <<off0, off1>>,
         ovf |-> \/ mapping.reverse_columns /\ OverflowU16(rev0)
                 \/ mapping.reverse_rows /\ OverflowU16(rev1)]

\* The clipping offset of set_address_window for options o on a controller
\* of framebuffer size fb: the offset (v) and whether computing it
\* overflowed (ovf).
PhysicalOffset(o, fb) ==
    LET mapping == MemoryMapping(o.orientation)
        offset  == o.display_offset
        sum0    == o.display_size[1] + offset[1]
        rev0    == fb[1] - WrapU16(sum0)
        sum1    == o.display_size[2] + offset[2]
        rev1    == fb[2] - WrapU16(sum1)
        off0    == IF mapping.reverse_columns THEN WrapU16(rev0) ELSE offset[1]
        off1    == IF mapping.reverse_rows THEN WrapU16(rev1) ELSE offset[2]
    IN  [v   |-> IF mapping.swap_rows_and_columns THEN <<off1, off0>>
                 ELSE <<off0, off1>>,
         ovf |-> \/ mapping.reverse_columns
                    /\ (OverflowU16(sum0) \/ OverflowU16(rev0))
                 \/ mapping.reverse_rows
                    /\ (OverflowU16(sum1) \/ OverflowU16(rev1))]

\* AddressWindow moving only the start corner.
AddressWindow_start_only(o, fb, sx, sy, ex, ey) ==
    LET off == PhysicalOffset(o, fb)
        w   == <<sx + off.v[1], sy + off.v[2], ex, ey>>
    IN  [v   |-> [i \in 1 .. 4 |-> WrapU16(w[i])],
         ovf |-> off.ovf \/ \E i \in 1 .. 4 : OverflowU16(w[i])]

\* The window set_address_window hands to the controller hook: the
\* rectangle moved by the clipping offset.
AddressWindow(o, fb, sx, sy, ex, ey) ==
    LET off == PhysicalOffset(o, fb)
        w   == <<sx + off.v[1], sy + off.v[2], ex + off.v[1], ey + off.v[2]>>
    IN  [v   |-> [i \in 1 .. 4 |-> WrapU16(w[i])],
         ovf |-> off.ovf \/ \E i \in 1 .. 4 : OverflowU16(w[i])]

\* An arithmetic step of a handler that overflowed (ovf) or not.
Checked(s, ovf) ==
    IF Running(s) /\ ovf /\ overflow_checks THEN [s EXCEPT !.err = Panic] ELSE s

\* A call of a hook of the controller model, with its arguments.
Hook(s, hook, args) ==
    IF Running(s)
    THEN [s EXCEPT !.hooks = Append(@, [hook |-> hook, args |-> args])]
    ELSE s

\* set_address_window leaving the offset out while the display sleeps.
set_address_window_awake(s, k, o, sx, sy, ex, ey) ==
    LET win == IF sleeping
               THEN AddressWindow([o EXCEPT !.display_offset = <<0, 0>>,
                                            !.display_size = framebuffer_size],
                                  framebuffer_size, sx, sy, ex, ey)
               ELSE AddressWindow(o, framebuffer_size, sx, sy, ex, ey)
    IN  update_address_window(
            Hook(Checked(s, win.ovf), "update_address_window",
                 <<o.orientation.rotation,
                   win.v[1], win.v[2], win.v[3], win.v[4]>>),
            k, o.orientation.rotation, win.v[1], win.v[2], win.v[3], win.v[4])

\* Display::set_address_window
set_address_window(s, k, o, sx, sy, ex, ey) ==
    LET win == AddressWindow(o, framebuffer_size, sx, sy, ex, ey)
    IN  update_address_window(
            Hook(Checked(s, win.ovf), "update_address_window",
                 <<o.orientation.rotation,
                   win.v[1], win.v[2], win.v[3], win.v[4]>>),
            k, o.orientation.rotation, win.v[1], win.v[2], win.v[3], win.v[4])

\* delay_us waiting whether or not the call is still running.
delay_us_always(s, us) ==
    [s EXCEPT !.di = Append(@, [op |-> "delay_us", cmd |-> us,
                                args |-> <<>>])]

\* delay.delay_us(us).await: a wait, which cannot fail; it is logged among
\* the Interface calls it happens between.
delay_us(s, us) ==
    IF Running(s)
    THEN [s EXCEPT !.di = Append(@, [op |-> "delay_us", cmd |-> us,
                                     args |-> <<>>])]
    ELSE s

\* <ILI9225Rgb565 as Model>::sleep
ili9225_sleep(s, k) ==
    write_raw(
        delay_us(
            write_raw(
                delay_us(write_raw(s, k, 7, <<0, 0>>), 50000),
                k, 17, <<0, 7>>),
            50000),
        k, 16, <<10, 1>>)

\* <ILI9225Rgb565 as Model>::wake
ili9225_wake(s, k) ==
    write_raw(
        delay_us(
            write_raw(write_raw(s, k, 16, <<10, 0>>), k, 17, <<16, 59>>),
            50000),
        k, 7, <<16, 23>>)

\* options::TearingEffect
TearingEffects == {"Off", "Vertical", "HorizontalAndVertical"}

\* options2ctrl_low
options2ctrl_low(o) ==
    19 + (IF o.invert_colors = "Inverted" THEN 4 ELSE 0)

\* <ILI9225Rgb565 as Model>::set_tearing_effect
ili9225_set_tearing_effect(s, k, tearing_effect, o) ==
    write_raw(s, k, 7, <<IF tearing_effect = "Off" THEN 0 ELSE 16,
                         options2ctrl_low(o)>>)

\* <ILI9225Rgb565 as Model>::set_vertical_scroll_region: not supported,
\* the arguments are ignored.
ili9225_set_vertical_scroll_region(s, k, top_fixed_area, bottom_fixed_area) ==
    s

\* <ILI9225Rgb565 as Model>::set_vertical_scroll_offset: not supported.
ili9225_set_vertical_scroll_offset(s, k, offset) == s

\* sleep setting the power state before the sequence is issued.
sleep_eager(s, k, was) ==
    [m        |-> ili9225_sleep(Hook(s, "sleep", <<>>), k),
     sleeping |-> TRUE]

\* Display::sleep run from machine s with the power state `was`: the
\* machine it leaves and the power state it leaves.
sleep(s, k, was) ==
    [m        |-> ili9225_sleep(Hook(s, "sleep", <<>>), k),
     sleeping |-> IF Running(ili9225_sleep(Hook(s, "sleep", <<>>), k))
                  THEN TRUE ELSE was]

\* Display::wake
wake(s, k, was) ==
    [m        |-> ili9225_wake(Hook(s, "wake", <<>>), k),
     sleeping |-> IF Running(ili9225_wake(Hook(s, "wake", <<>>), k))
                  THEN FALSE ELSE was]

\* Display::set_tearing_effect
set_tearing_effect(s, k, o, tearing_effect) ==
    ili9225_set_tearing_effect(
        Hook(s, "set_tearing_effect", <<tearing_effect, o>>),
        k, tearing_effect, o)

\* set_vertical_scroll_region moving the top area by the display offset.
set_vertical_scroll_region_shifted(s, k, top_fixed_area, bottom_fixed_area) ==
    ili9225_set_vertical_scroll_region(
        Hook(s, "set_vertical_scroll_region",
             <<top_fixed_area + options.display_offset[2], bottom_fixed_area>>),
        k, top_fixed_area + options.display_offset[2], bottom_fixed_area)

\* Display::set_vertical_scroll_region
set_vertical_scroll_region(s, k, top_fixed_area, bottom_fixed_area) ==
    ili9225_set_vertical_scroll_region(
        Hook(s, "set_vertical_scroll_region",
             <<top_fixed_area, bottom_fixed_area>>),
        k, top_fixed_area, bottom_fixed_area)

\* Display::set_vertical_scroll_offset
set_vertical_scroll_offset(s, k, offset) ==
    ili9225_set_vertical_scroll_offset(
        Hook(s, "set_vertical_scroll_offset", <<offset>>), k, offset)

\* `for &word in pixel_data { self.di.send_data_slice(&[word]) }`
RECURSIVE send_data_chunks(_, _, _)
send_data_chunks(s, k, data) ==
    IF data = <<>> THEN s
    ELSE send_data_chunks(send_data_slice(s, k, <<Head(data)>>), k, Tail(data))

\* Mutant: the pixel data is handed to the transport word by word.
show_raw_data_chunked(s, k, o, x, y, width, height, pixel_data) ==
    LET ex == WrapU16(WrapU16(x + width) - 1)
        ey == WrapU16(WrapU16(y + height) - 1)
    IN  send_data_chunks(
            write_memory_start(
                Hook(set_address_window(s, k, o, x, y, ex, ey),
                     "write_memory_start", <<>>), k),
            k, pixel_data)

\* show_raw_data doing nothing while the display sleeps.
show_raw_data_awake_only(s, k, o, x, y, width, height, pixel_data) ==
    LET ex  == WrapU16(WrapU16(x + width) - 1)
        ey  == WrapU16(WrapU16(y + height) - 1)
        ovf == \/ OverflowU16(x + width) \/ OverflowU16(WrapU16(x + width) - 1)
               \/ OverflowU16(y + height) \/ OverflowU16(WrapU16(y + height) - 1)
    IN  IF sleeping THEN s
        ELSE send_data_slice(
                 write_memory_start(
                     Hook(set_address_window(Checked(s, ovf), k, o, x, y,
                                             ex, ey),
                          "write_memory_start", <<>>), k),
                 k, pixel_data)

\* show_raw_data going on after the address window failed.
show_raw_data_anyway(s, k, o, x, y, width, height, pixel_data) ==
    LET ex  == WrapU16(WrapU16(x + width) - 1)
        ey  == WrapU16(WrapU16(y + height) - 1)
        ovf == \/ OverflowU16(x + width) \/ OverflowU16(WrapU16(x + width) - 1)
               \/ OverflowU16(y + height) \/ OverflowU16(WrapU16(y + height) - 1)
        set == set_address_window(Checked(s, ovf), k, o, x, y, ex, ey)
    IN  send_data_slice(
            write_memory_start(
                Hook(IF Panicked(set.err) THEN set ELSE [set EXCEPT !.err = Ok],
                     "write_memory_start", <<>>), k),
            k, pixel_data)

\* show_raw_data sending the data whether or not begin-memory-write
\* succeeded.
show_raw_data_start_unchecked(s, k, o, x, y, width, height, pixel_data) ==
    LET ex    == WrapU16(WrapU16(x + width) - 1)
        ey    == WrapU16(WrapU16(y + height) - 1)
        ovf   == \/ OverflowU16(x + width) \/ OverflowU16(WrapU16(x + width) - 1)
                 \/ OverflowU16(y + height) \/ OverflowU16(WrapU16(y + height) - 1)
        set   == set_address_window(Checked(s, ovf), k, o, x, y, ex, ey)
        start == write_memory_start(Hook(set, "write_memory_start", <<>>), k)
    IN  send_data_slice(IF Running(set) THEN [start EXCEPT !.err = Ok]
                        ELSE start,
                        k, pixel_data)

\* Display::show_raw_data
show_raw_data(s, k, o, x, y, width, height, pixel_data) ==
    LET ex  == WrapU16(WrapU16(x + width) - 1)
        ey  == WrapU16(WrapU16(y + height) - 1)
        ovf == \/ OverflowU16(x + width) \/ OverflowU16(WrapU16(x + width) - 1)
               \/ OverflowU16(y + height) \/ OverflowU16(WrapU16(y + height) - 1)
    IN  send_data_slice(
            write_memory_start(
                Hook(set_address_window(Checked(s, ovf), k, o, x, y, ex, ey),
                     "write_memory_start", <<>>), k),
            k, pixel_data)

\* set_orientation calling the hook before it stores the orientation.
set_orientation_stale(s, k, o, orientation) ==
    update_options(Hook(s, "update_options", <<o>>), k, o)

\* Display::set_orientation: the orientation is stored, then the controller
\* is told.
set_orientation(s, k, o, orientation) ==
    update_options(
        Hook(s, "update_options", <<[o EXCEPT !.orientation = orientation]>>),
        k, [o EXCEPT !.orientation = orientation])

-----------------------------------------------------------------------------
(* The display on the serial transport                                     *)

\* The display sizes and offsets a display is set up with: the whole
\* framebuffer, or a panel smaller than it by a margin of two.
Setups ==
    {DefaultOptions,
     [DefaultOptions EXCEPT !.display_size = <<172, 216>>,
                            !.display_offset = <<2, 2>>]}

\* The transfers: one pixel at the origin with the longest run of one word,
\* a two-pixel row with two different words, and a pixel in the last
\* column a u16 can address with no words at all.
Transfers ==
    {[at |-> <<0, 0, 1, 1>>, data |-> [i \in 1 .. MaxData |-> 255]],
     [at |-> <<1, 2, 2, 1>>, data |-> <<42, 255>>],
     [at |-> <<65535, 0, 1, 1>>, data |-> <<>>]}

\* The orientations set_orientation is called with: every rotation, two of
\* them mirrored.
OrientationInputs ==
    {[rotation |-> "Deg0",   mirrored |-> FALSE],
     [rotation |-> "Deg90",  mirrored |-> FALSE],
     [rotation |-> "Deg180", mirrored |-> TRUE],
     [rotation |-> "Deg270", mirrored |-> TRUE]}

\* The state after Builder::init succeeded: the last command of the
\* bring-up left the selector high.
InitDisplay ==
    /\ kind = "Serial4Line"
    /\ pins \in InitPins(BusWidth(kind))
    /\ last = None
    /\ dc = TRUE
    /\ wr = FALSE
    /\ call = [op |-> "init", cmd |-> 0, args |-> <<>>, at |-> <<>>,
               lastBefore |-> None, ev |-> <<>>, di |-> <<>>, hooks |-> <<>>,
               res |-> Ok]
    /\ prev = [op |-> "none", ok |-> TRUE, cmd |-> 0, lastBefore |-> None,
               dc |-> dc]
    /\ faults = 0
    /\ options \in Setups
    /\ overflow_checks \in BOOLEAN
    /\ framebuffer_size = FRAMEBUFFER_SIZE
    /\ sleeping = FALSE
    /\ sharing = NoSharing
    /\ take_skip = NoTakeSkip
    /\ framebuf = NoFrameBuf

\* A call that panicked did not return: the display is gone.
DisplayLive == ~Panicked(call.res)

\* display.show_raw_data(x, y, width, height, pixel_data), with any fault
\* plan
ShowRawDataOf(transfers) ==
    /\ DisplayLive
    /\ \E t \in transfers :
         LET run(f, hit) ==
                 show_raw_data(Machine(f, hit), kind, options, t.at[1],
                               t.at[2], t.at[3], t.at[4], t.data)
         IN  \E fh \in Faults(run(0, FALSE).cnt) :
                /\ CommitCall([Call("show_raw_data", 0, t.data,
                                    run(fh[1], fh[2]))
                                  EXCEPT !.at = t.at],
                              run(fh[1], fh[2]))
                /\ UNCHANGED <<options, sleeping>>

ShowRawData == ShowRawDataOf(Transfers)

\* display.set_orientation(orientation), with any fault plan
SetOrientationTo(orientations) ==
    /\ DisplayLive
    /\ \E orientation \in orientations :
         LET run(f, hit) ==
                 set_orientation(Machine(f, hit), kind, options, orientation)
         IN  \E fh \in Faults(run(0, FALSE).cnt) :
                /\ CommitCall([Call("set_orientation", 0, <<>>,
                                    run(fh[1], fh[2]))
                                  EXCEPT !.at = <<orientation>>],
                              run(fh[1], fh[2]))
                /\ options' = [options EXCEPT !.orientation = orientation]
                /\ UNCHANGED sleeping

SetOrientation == SetOrientationTo(OrientationInputs)

NextDisplay == ShowRawData \/ SetOrientation

SpecDisplay == InitDisplay /\ [][NextDisplay]_vars

-----------------------------------------------------------------------------
(* The address window on the mock transport                                *)

\* The controllers and panels the window is computed for: the framebuffer
\* size of the controller, and the size and offset of the panel in it.  The
\* panel lies inside the framebuffer; its margins are equal on both sides,
\* absent, or different on every side.
Devices ==
    {[fb |-> <<8, 8>>, size |-> <<4, 4>>, offset |-> <<2, 2>>],
     [fb |-> <<8, 8>>, size |-> <<8, 8>>, offset |-> <<0, 0>>],
     [fb |-> <<8, 8>>, size |-> <<5, 4>>, offset |-> <<1, 3>>],
     [fb |-> FRAMEBUFFER_SIZE, size |-> <<170, 210>>, offset |-> <<2, 3>>]}

\* The rectangles transferred: (x, y, width, height).  The last two end in
\* the last column and row a u16 can address.
WindowRects ==
    {<<0, 0, 4, 4>>, <<1, 2, 2, 1>>, <<3, 1, 1, 5>>, <<65535, 0, 1, 1>>,
     <<65530, 65531, 6, 5>>}

WindowTransfers == {[at |-> r, data |-> <<7>>] : r \in WindowRects}

InitWindow ==
    /\ kind = "Mock"
    /\ pins \in InitPins(BusWidth(kind))
    /\ last = None
    /\ dc = TRUE
    /\ wr = FALSE
    /\ call = [op |-> "init", cmd |-> 0, args |-> <<>>, at |-> <<>>,
               lastBefore |-> None, ev |-> <<>>, di |-> <<>>, hooks |-> <<>>,
               res |-> Ok]
    /\ prev = [op |-> "none", ok |-> TRUE, cmd |-> 0, lastBefore |-> None,
               dc |-> dc]
    /\ faults = 0
    /\ \E d \in Devices :
          /\ framebuffer_size = d.fb
          /\ options = [DefaultOptions EXCEPT !.display_size = d.size,
                                              !.display_offset = d.offset]
    /\ overflow_checks \in BOOLEAN
    /\ sleeping = FALSE
    /\ sharing = NoSharing
    /\ take_skip = NoTakeSkip
    /\ framebuf = NoFrameBuf

WindowShowRawData == ShowRawDataOf(WindowTransfers)

WindowSetOrientation == SetOrientationTo(Orientations)

NextWindow == WindowShowRawData \/ WindowSetOrientation

SpecWindow == InitWindow /\ [][NextWindow]_vars

-----------------------------------------------------------------------------
(* The power state and the stored options                                  *)

\* The panel: smaller than the framebuffer by a margin of two.
PowerSetups ==
    {[DefaultOptions EXCEPT !.display_size = <<172, 216>>,
                            !.display_offset = <<2, 2>>]}

\* The transfer made awake and asleep: a two-pixel row.
PowerTransfers == {[at |-> <<1, 2, 2, 1>>, data |-> <<42, 255>>]}

\* The orientation set: a quarter turn.
PowerOrientations == {[rotation |-> "Deg90", mirrored |-> FALSE]}

\* The fixed areas (top, bottom) and the offset scrolled to.
ScrollRegions == {<<10, 20>>}

ScrollOffsets == {5}

\* The state after Builder::init succeeded: the display is awake.
InitPower ==
    /\ kind = "Serial4Line"
    /\ pins \in InitPins(BusWidth(kind))
    /\ last = None
    /\ dc = TRUE
    /\ wr = FALSE
    /\ call = [op |-> "init", cmd |-> 0, args |-> <<>>, at |-> <<>>,
               lastBefore |-> None, ev |-> <<>>, di |-> <<>>, hooks |-> <<>>,
               res |-> Ok]
    /\ prev = [op |-> "none", ok |-> TRUE, cmd |-> 0, lastBefore |-> None,
               dc |-> dc]
    /\ faults = 0
    /\ options \in PowerSetups
    /\ overflow_checks = FALSE
    /\ framebuffer_size = FRAMEBUFFER_SIZE
    /\ sleeping = FALSE
    /\ sharing = NoSharing
    /\ take_skip = NoTakeSkip
    /\ framebuf = NoFrameBuf

\* display.sleep(delay), with any fault plan
Sleep ==
    /\ DisplayLive
    /\ LET run(f, hit) == sleep(Machine(f, hit), kind, sleeping)
       IN  \E fh \in Faults(run(0, FALSE).m.cnt) :
              /\ Commit("sleep", 0, <<>>, run(fh[1], fh[2]).m)
              /\ sleeping' = run(fh[1], fh[2]).sleeping
              /\ UNCHANGED options

\* display.wake(delay), with any fault plan
Wake ==
    /\ DisplayLive
    /\ LET run(f, hit) == wake(Machine(f, hit), kind, sleeping)
       IN  \E fh \in Faults(run(0, FALSE).m.cnt) :
              /\ Commit("wake", 0, <<>>, run(fh[1], fh[2]).m)
              /\ sleeping' = run(fh[1], fh[2]).sleeping
              /\ UNCHANGED options

\* SetTearingEffect waking the display when it succeeds.
SetTearingEffect_wakes ==
    /\ DisplayLive
    /\ \E tearing_effect \in TearingEffects :
         LET run(f, hit) ==
                 set_tearing_effect(Machine(f, hit), kind, options,
                                    tearing_effect)
         IN  \E fh \in Faults(run(0, FALSE).cnt) :
                /\ CommitCall([Call("set_tearing_effect", 0, <<>>,
                                    run(fh[1], fh[2]))
                                  EXCEPT !.at = <<tearing_effect>>],
                              run(fh[1], fh[2]))
                /\ sleeping' = (sleeping /\ ~Running(run(fh[1], fh[2])))
                /\ UNCHANGED options

\* display.set_tearing_effect(tearing_effect), with any fault plan
SetTearingEffect ==
    /\ DisplayLive
    /\ \E tearing_effect \in TearingEffects :
         LET run(f, hit) ==
                 set_tearing_effect(Machine(f, hit), kind, options,
                                    tearing_effect)
         IN  \E fh \in Faults(run(0, FALSE).cnt) :
                /\ CommitCall([Call("set_tearing_effect", 0, <<>>,
                                    run(fh[1], fh[2]))
                                  EXCEPT !.at = <<tearing_effect>>],
                              run(fh[1], fh[2]))
                /\ UNCHANGED <<options, sleeping>>

\* display.set_vertical_scroll_region(top_fixed_area, bottom_fixed_area)
SetVerticalScrollRegion ==
    /\ DisplayLive
    /\ \E r \in ScrollRegions :
         LET run(f, hit) ==
                 set_vertical_scroll_region(Machine(f, hit), kind, r[1], r[2])
         IN  \E fh \in Faults(run(0, FALSE).cnt) :
                /\ CommitCall([Call("set_vertical_scroll_region", 0, <<>>,
                                    run(fh[1], fh[2]))
                                  EXCEPT !.at = r],
                              run(fh[1], fh[2]))
                /\ UNCHANGED <<options, sleeping>>

\* display.set_vertical_scroll_offset(offset)
SetVerticalScrollOffset ==
    /\ DisplayLive
    /\ \E offset \in ScrollOffsets :
         LET run(f, hit) ==
                 set_vertical_scroll_offset(Machine(f, hit), kind, offset)
         IN  \E fh \in Faults(run(0, FALSE).cnt) :
                /\ CommitCall([Call("set_vertical_scroll_offset", 0, <<>>,
                                    run(fh[1], fh[2]))
                                  EXCEPT !.at = <<offset>>],
                              run(fh[1], fh[2]))
                /\ UNCHANGED <<options, sleeping>>

PowerShowRawData == ShowRawDataOf(PowerTransfers)

PowerSetOrientation == SetOrientationTo(PowerOrientations)

NextPower ==
    \/ Sleep
    \/ Wake
    \/ PowerShowRawData
    \/ PowerSetOrientation
    \/ SetTearingEffect
    \/ SetVerticalScrollRegion
    \/ SetVerticalScrollOffset

SpecPower == InitPower /\ [][NextPower]_vars

-----------------------------------------------------------------------------
(* Transfers after different histories                                     *)

\* The panel: its four margins in the framebuffer differ.
HistorySetups ==
    {[DefaultOptions EXCEPT !.display_size = <<170, 210>>,
                            !.display_offset = <<2, 3>>]}

HistoryTransfers == {[at |-> <<1, 2, 2, 1>>, data |-> <<42>>]}

\* The orientations set: a quarter turn, and a half turn mirrored.
HistoryOrientations ==
    {[rotation |-> "Deg90", mirrored |-> FALSE],
     [rotation |-> "Deg180", mirrored |-> TRUE]}

InitHistory ==
    /\ kind = "Serial4Line"
    /\ pins \in InitPins(BusWidth(kind))
    /\ last = None
    /\ dc = TRUE
    /\ wr = FALSE
    /\ call = NoCall("init")
    /\ prev = [op |-> "none", ok |-> TRUE, cmd |-> 0, lastBefore |-> None,
               dc |-> dc]
    /\ faults = 0
    /\ options \in HistorySetups
    /\ overflow_checks = FALSE
    /\ framebuffer_size = FRAMEBUFFER_SIZE
    /\ sleeping = FALSE
    /\ sharing = NoSharing
    /\ take_skip = NoTakeSkip
    /\ framebuf = NoFrameBuf

NextHistory ==
    \/ ShowRawDataOf(HistoryTransfers)
    \/ SetOrientationTo(HistoryOrientations)
    \/ Sleep
    \/ Wake

SpecHistory == InitHistory /\ [][NextHistory]_vars

-----------------------------------------------------------------------------
(* The selector under display operations, on both transports              *)

SelectorTransfers == {[at |-> <<1, 2, 2, 1>>, data |-> <<42, 255>>]}

SelectorOrientations == {[rotation |-> "Deg90", mirrored |-> FALSE]}

\* The state after Builder::init succeeded on the serial or the 8-bit
\* parallel transport: the last command of the bring-up left the selector
\* and write-enable high and the bus remembering the word on its pins.
InitSelector ==
    /\ kind \in {"Serial4Line", "Parallel8Bit"}
    /\ pins \in InitPins(BusWidth(kind))
    /\ last = IF kind = "Parallel8Bit"
              THEN Some(PinsWord(pins, BusWidth(kind))) ELSE None
    /\ dc = TRUE
    /\ wr = (kind = "Parallel8Bit")
    /\ call = NoCall("init")
    /\ prev = [op |-> "none", ok |-> TRUE, cmd |-> 0, lastBefore |-> None,
               dc |-> dc]
    /\ faults = 0
    /\ options = DefaultOptions
    /\ overflow_checks = FALSE
    /\ framebuffer_size = FRAMEBUFFER_SIZE
    /\ sleeping = FALSE
    /\ sharing = NoSharing
    /\ take_skip = NoTakeSkip
    /\ framebuf = NoFrameBuf

NextSelector ==
    \/ ShowRawDataOf(SelectorTransfers)
    \/ SetOrientationTo(SelectorOrientations)
    \/ Sleep
    \/ Wake

SpecSelector == InitSelector /\ [][NextSelector]_vars

-----------------------------------------------------------------------------
(* The registers of the ILI9225 under every orientation                    *)

\* The transfer: a rectangle whose corners have different high and low
\* bytes.
RegisterTransfers == {[at |-> <<258, 515, 2, 2>>, data |-> <<42>>]}

\* options::ColorOrder
ColorOrders == {"Rgb", "Bgr"}

\* options::ColorInversion
ColorInversions == {"Normal", "Inverted"}

\* The state after Builder::init succeeded, for either colour order and
\* either colour inversion.
InitRegisters ==
    /\ kind = "Serial4Line"
    /\ pins \in InitPins(BusWidth(kind))
    /\ last = None
    /\ dc = TRUE
    /\ wr = FALSE
    /\ call = NoCall("init")
    /\ prev = [op |-> "none", ok |-> TRUE, cmd |-> 0, lastBefore |-> None,
               dc |-> dc]
    /\ faults = 0
    /\ \E color_order \in ColorOrders, invert_colors \in ColorInversions :
          options = [DefaultOptions EXCEPT !.color_order = color_order,
                                           !.invert_colors = invert_colors]
    /\ overflow_checks = FALSE
    /\ framebuffer_size = FRAMEBUFFER_SIZE
    /\ sleeping = FALSE
    /\ sharing = NoSharing
    /\ take_skip = NoTakeSkip
    /\ framebuf = NoFrameBuf

NextRegisters ==
    \/ ShowRawDataOf(RegisterTransfers)
    \/ SetOrientationTo(Orientations)

SpecRegisters == InitRegisters /\ [][NextRegisters]_vars

-----------------------------------------------------------------------------
(* RawFrameBuf                                                             *)

\* IntoRawBytes::BYTES_PER_PIXEL of the colour formats Rgb565 and Rgb888
BYTES_PER_PIXEL(fmt) == IF fmt = "Rgb565" THEN 2 ELSE 3

\* into_raw_bytes writing the 16 bits least significant byte first.
into_raw_bytes_le(color) ==
    IF color.fmt = "Rgb565"
    THEN <<(color.r * 2048 + color.g * 32 + color.b) % 256,
           (color.r * 2048 + color.g * 32 + color.b) \div 256>>
    ELSE <<color.r, color.g, color.b>>

\* IntoRawBytes::into_raw_bytes: an Rgb565 colour is packed into 16 bits,
\* red in the top five, and written most significant byte first; an Rgb888
\* colour is its three components.
into_raw_bytes(color) ==
    IF color.fmt = "Rgb565"
    THEN <<(color.r * 2048 + color.g * 32 + color.b) \div 256,
           (color.r * 2048 + color.g * 32 + color.b) % 256>>
    ELSE <<color.r, color.g, color.b>>

\* width * height * C::BYTES_PER_PIXEL
active_buffer_len(fb) == fb.width * fb.height * fb.bpp

\* RawFrameBuf::as_bytes
as_bytes(fb) == SubSeq(fb.buffer, 1, active_buffer_len(fb))

\* self.bounding_box().contains(coord)
contains(fb, coord) ==
    /\ coord[1] >= 0 /\ coord[1] < fb.width
    /\ coord[2] >= 0 /\ coord[2] < fb.height

\* buffer_slice[byte_index..byte_index + n].copy_from_slice(bytes)
copy_from_slice(buffer, byte_index, bytes) ==
    [j \in 1 .. Len(buffer) |->
        IF j - 1 >= byte_index /\ j - 1 < byte_index + Len(bytes)
        THEN bytes[j - byte_index] ELSE buffer[j]]

\* The body of the loop of draw_iter for one pixel, drawing whatever its
\* coordinate is: a coordinate is cast to usize, which turns a negative one
\* into an index beyond every buffer.
draw_pixel_unchecked(fb, pixel) ==
    LET byte_index == (pixel.coord[2] * fb.width + pixel.coord[1]) * fb.bpp
    IN  IF /\ pixel.coord[1] >= 0 /\ pixel.coord[2] >= 0
           /\ byte_index + fb.bpp <= active_buffer_len(fb)
        THEN [fb EXCEPT !.buffer =
                 copy_from_slice(@, byte_index, into_raw_bytes(pixel.color))]
        ELSE fb

\* draw_pixel taking the number of the pixel for the index of its first
\* byte.
draw_pixel_unscaled(fb, pixel) ==
    LET byte_index == pixel.coord[2] * fb.width + pixel.coord[1]
    IN  IF /\ contains(fb, pixel.coord)
           /\ byte_index + fb.bpp <= active_buffer_len(fb)
        THEN [fb EXCEPT !.buffer =
                 copy_from_slice(@, byte_index, into_raw_bytes(pixel.color))]
        ELSE fb

\* The body of the loop of draw_iter for one pixel.
draw_pixel(fb, pixel) ==
    LET byte_index == (pixel.coord[2] * fb.width + pixel.coord[1]) * fb.bpp
    IN  IF /\ contains(fb, pixel.coord)
           /\ byte_index + fb.bpp <= active_buffer_len(fb)
        THEN [fb EXCEPT !.buffer =
                 copy_from_slice(@, byte_index, into_raw_bytes(pixel.color))]
        ELSE fb

\* draw_iter writing the pixels from the last to the first.
RECURSIVE draw_iter_reversed(_, _)
draw_iter_reversed(fb, pixels) ==
    IF pixels = <<>> THEN fb
    ELSE draw_pixel(draw_iter_reversed(fb, Tail(pixels)), Head(pixels))

\* DrawTarget::draw_iter: the framebuffer after the pixels, in order.
RECURSIVE draw_iter(_, _)
draw_iter(fb, pixels) ==
    IF pixels = <<>> THEN fb
    ELSE draw_iter(draw_pixel(fb, Head(pixels)), Tail(pixels))

\* color_bytes.iter().all(|&b| b == *first)
all_bytes_same(color_bytes) ==
    \A j \in 1 .. Len(color_bytes) : color_bytes[j] = color_bytes[1]

\* clear_fill over the whole of the storage.
clear_fill_storage(fb, color_bytes) ==
    [fb EXCEPT !.buffer = [j \in 1 .. Len(fb.buffer) |-> color_bytes[1]]]

\* active_slice.fill(color_bytes[0])
clear_fill(fb, color_bytes) ==
    [fb EXCEPT !.buffer =
        [j \in 1 .. Len(fb.buffer) |->
            IF j <= active_buffer_len(fb) THEN color_bytes[1] ELSE fb.buffer[j]]]

\* `for chunk in active_slice.chunks_exact_mut(n) { chunk.copy_from_slice(..) }`:
\* every whole chunk of the active slice gets the bytes.
clear_chunks(fb, color_bytes) ==
    LET n     == Len(color_bytes)
        whole == active_buffer_len(fb) - (active_buffer_len(fb) % n)
    IN  [fb EXCEPT !.buffer =
            [j \in 1 .. Len(fb.buffer) |->
                IF j <= whole THEN color_bytes[((j - 1) % n) + 1]
                ELSE fb.buffer[j]]]

\* clear writing the first byte of the colour everywhere.
clear_first_byte(fb, color) ==
    clear_fill(fb, into_raw_bytes(color))

\* DrawTarget::clear
clear(fb, color) ==
    IF all_bytes_same(into_raw_bytes(color)) /\ into_raw_bytes(color) # <<>>
    THEN clear_fill(fb, into_raw_bytes(color))
    ELSE IF fb.bpp > 0 THEN clear_chunks(fb, into_raw_bytes(color))
    ELSE fb

\* self.bounding_box(): the rectangle at the origin of the size of fb
bounding_box(fb) == [top_left |-> <<0, 0>>, size |-> <<fb.width, fb.height>>]

\* Rectangle::is_zero_sized
is_zero_sized(rect) == rect.size[1] = 0 \/ rect.size[2] = 0

Max(a, b) == IF a >= b THEN a ELSE b

Min(a, b) == IF a <= b THEN a ELSE b

\* area.intersection(&other): the rectangle of the points in both, of size
\* zero when there is none or when one of the two has no point.
intersection(area, other) ==
    LET left   == Max(area.top_left[1], other.top_left[1])
        top    == Max(area.top_left[2], other.top_left[2])
        right  == Min(area.top_left[1] + area.size[1],
                      other.top_left[1] + other.size[1])
        bottom == Min(area.top_left[2] + area.size[2],
                      other.top_left[2] + other.size[2])
    IN  IF is_zero_sized(area) \/ is_zero_sized(other)
           \/ right <= left \/ bottom <= top
        THEN [top_left |-> other.top_left, size |-> <<0, 0>>]
        ELSE [top_left |-> <<left, top>>, size |-> <<right - left, bottom - top>>]

\* rect.points(): the points of rect, row by row.
points(rect) ==
    [i \in 1 .. rect.size[1] * rect.size[2] |->
        <<rect.top_left[1] + ((i - 1) % rect.size[1]),
          rect.top_left[2] + ((i - 1) \div rect.size[1])>>]

\* The loop of fill_solid over points ps: a point is written if its bytes
\* end inside the buffer.
RECURSIVE fill_points(_, _, _)
fill_points(fb, ps, color_bytes) ==
    IF ps = <<>> THEN fb
    ELSE fill_points(
             IF (Head(ps)[2] * fb.width + Head(ps)[1]) * fb.bpp + fb.bpp
                    <= Len(fb.buffer)
             THEN [fb EXCEPT !.buffer =
                      copy_from_slice(@, (Head(ps)[2] * fb.width + Head(ps)[1])
                                             * fb.bpp, color_bytes)]
             ELSE fb,
             Tail(ps), color_bytes)

\* fill_solid filling the area as given, not its intersection with the
\* bounding box.
fill_solid_unclipped(fb, area, color) ==
    IF is_zero_sized(area) THEN fb
    ELSE fill_points(fb,
                     SelectSeq(points(area),
                               LAMBDA xy : xy[1] >= 0 /\ xy[2] >= 0),
                     into_raw_bytes(color))

\* DrawTarget::fill_solid
fill_solid(fb, area, color) ==
    IF is_zero_sized(intersection(area, bounding_box(fb))) THEN fb
    ELSE fill_points(fb, points(intersection(area, bounding_box(fb))),
                     into_raw_bytes(color))

-----------------------------------------------------------------------------
(* The framebuffer on its own                                              *)

\* The longest batch of pixels drawn in one call.
MaxBatch == 2

\* The framebuffers: three pixels wide and two high, of Rgb565 or Rgb888,
\* zeroed in a buffer of exactly the size needed, or holding earlier
\* content in a buffer two bytes longer.
FrameBufs ==
    {[buffer |-> [j \in 1 .. 3 * 2 * BYTES_PER_PIXEL(fmt) + extra |->
                     IF extra = 0 THEN 0 ELSE j],
      width |-> 3, height |-> 2, bpp |-> BYTES_PER_PIXEL(fmt)] :
        <<fmt, extra>> \in {<<"Rgb565", 0>>, <<"Rgb565", 2>>,
                            <<"Rgb888", 0>>, <<"Rgb888", 2>>}}

\* The colours: of each format one whose raw bytes are all equal and one
\* whose raw bytes differ.
Colors ==
    {[fmt |-> "Rgb565", r |-> 31, g |-> 63, b |-> 31],
     [fmt |-> "Rgb565", r |-> 31, g |-> 0,  b |-> 0],
     [fmt |-> "Rgb888", r |-> 7,  g |-> 7,  b |-> 7],
     [fmt |-> "Rgb888", r |-> 1,  g |-> 2,  b |-> 3]}

\* The colours of the format of framebuffer fb.
ColorsOf(fb) == {c \in Colors : BYTES_PER_PIXEL(c.fmt) = fb.bpp}

\* The coordinates outside framebuffer fb that are drawn at: (width, 0),
\* (0, height) and two with a negative component.
OutCoords(fb) == {<<fb.width, 0>>, <<0, fb.height>>, <<-1, 0>>, <<1, -1>>}

\* The colour the pixels outside are drawn in: the one whose bytes differ.
Ink(fb) == CHOOSE c \in ColorsOf(fb) : ~all_bytes_same(into_raw_bytes(c))

\* The pixels drawn on framebuffer fb: the last pixel of the last row in
\* each colour, and the coordinates outside.
PixelsOf(fb) ==
    {[coord |-> <<fb.width - 1, fb.height - 1>>, color |-> c] :
        c \in ColorsOf(fb)}
    \cup {[coord |-> xy, color |-> Ink(fb)] : xy \in OutCoords(fb)}

\* The batches of pixels of one draw call.
BatchesOf(fb) == SeqsUpTo(PixelsOf(fb), MaxBatch)

InitFrameBuf ==
    /\ kind = "Mock"
    /\ pins \in InitPins(BusWidth(kind))
    /\ last = None
    /\ dc = TRUE
    /\ wr = FALSE
    /\ call = [op |-> "new", cmd |-> 0, args |-> <<>>, at |-> <<>>,
               lastBefore |-> None, ev |-> <<>>, di |-> <<>>, hooks |-> <<>>,
               res |-> Ok]
    /\ prev = [op |-> "none", ok |-> TRUE, cmd |-> 0, lastBefore |-> None,
               dc |-> dc]
    /\ faults = 0
    /\ options = DefaultOptions
    /\ overflow_checks = FALSE
    /\ framebuffer_size = FRAMEBUFFER_SIZE
    /\ sleeping = FALSE
    /\ sharing = NoSharing
    /\ take_skip = NoTakeSkip
    /\ framebuf \in FrameBufs

\* A call of a method of the framebuffer returned Ok(()): the observer
\* records it, nothing but the framebuffer changes.
FrameBufCall(op, at) ==
    /\ call' = [op |-> op, cmd |-> 0, args |-> <<>>, at |-> at,
                lastBefore |-> None, ev |-> <<>>, di |-> <<>>,
                hooks |-> <<>>, res |-> Ok]
    /\ prev' = Summary(call)
    /\ UNCHANGED <<kind, pins, last, dc, wr, faults, options,
                   overflow_checks, framebuffer_size, sleeping, sharing,
                   take_skip>>

\* fbuf.clear(color)
Clear ==
    \E color \in ColorsOf(framebuf) :
        /\ framebuf' = clear(framebuf, color)
        /\ FrameBufCall("clear", <<color>>)

\* fbuf.draw_iter(pixels)
DrawIter ==
    \E pixels \in BatchesOf(framebuf) :
        /\ framebuf' = draw_iter(framebuf, pixels)
        /\ FrameBufCall("draw_iter", pixels)

NextFrameBuf == Clear \/ DrawIter

SpecFrameBuf == InitFrameBuf /\ [][NextFrameBuf]_vars

-----------------------------------------------------------------------------
(* Drawing single pixels and filling rectangles                            *)

\* The coordinates inside framebuffer fb.
InCoords(fb) == (0 .. fb.width - 1) \X (0 .. fb.height - 1)

\* The rectangles filled: the whole framebuffer, one inside it, two that
\* reach over an edge (one of them from negative coordinates), one that
\* covers it with a margin, one beside it, one above it and an empty one
\* inside it.
Areas ==
    {[top_left |-> <<0, 0>>,   size |-> <<3, 2>>],
     [top_left |-> <<1, 0>>,   size |-> <<1, 2>>],
     [top_left |-> <<2, 1>>,   size |-> <<2, 2>>],
     [top_left |-> <<-1, -1>>, size |-> <<2, 2>>],
     [top_left |-> <<-1, -1>>, size |-> <<5, 4>>],
     [top_left |-> <<3, 0>>,   size |-> <<2, 1>>],
     [top_left |-> <<0, -2>>,  size |-> <<3, 2>>],
     [top_left |-> <<1, 1>>,   size |-> <<0, 1>>]}

\* The framebuffers drawn on: the Rgb565 one in the longer buffer and the
\* Rgb888 one in the buffer of exactly the size needed.
DrawFrameBufs ==
    {fb \in FrameBufs :
        (fb.bpp = 2) = (Len(fb.buffer) > active_buffer_len(fb))}

InitDraw ==
    /\ kind = "Mock"
    /\ pins \in InitPins(BusWidth(kind))
    /\ last = None
    /\ dc = TRUE
    /\ wr = FALSE
    /\ call = [op |-> "new", cmd |-> 0, args |-> <<>>, at |-> <<>>,
               lastBefore |-> None, ev |-> <<>>, di |-> <<>>, hooks |-> <<>>,
               res |-> Ok]
    /\ prev = [op |-> "none", ok |-> TRUE, cmd |-> 0, lastBefore |-> None,
               dc |-> dc]
    /\ faults = 0
    /\ options = DefaultOptions
    /\ overflow_checks = FALSE
    /\ framebuffer_size = FRAMEBUFFER_SIZE
    /\ sleeping = FALSE
    /\ sharing = NoSharing
    /\ take_skip = NoTakeSkip
    /\ framebuf \in DrawFrameBufs

\* Pixel(coord, color).draw(&mut fbuf), the coordinate inside or outside:
\* draw_iter of the one pixel
DrawPixel ==
    \E xy \in InCoords(framebuf) \cup OutCoords(framebuf),
       color \in ColorsOf(framebuf) :
        /\ framebuf' = draw_iter(framebuf, <<[coord |-> xy, color |-> color]>>)
        /\ FrameBufCall("draw_iter", <<[coord |-> xy, color |-> color]>>)

\* fbuf.fill_solid(&area, color)
FillSolid ==
    \E area \in Areas, color \in ColorsOf(framebuf) :
        /\ framebuf' = fill_solid(framebuf, area, color)
        /\ FrameBufCall("fill_solid", <<area, color>>)

NextDraw == DrawPixel \/ FillSolid \/ Clear

SpecDraw == InitDraw /\ [][NextDraw]_vars

-----------------------------------------------------------------------------
(* Clearing, drawing batches and filling on one framebuffer                *)

\* The framebuffer painted on: the Rgb565 one holding earlier content.
PaintFrameBufs ==
    {fb \in FrameBufs : fb.bpp = 2 /\ Len(fb.buffer) > active_buffer_len(fb)}

\* The rectangles filled: one inside the framebuffer, one that covers its
\* last pixel and reaches over the edge, and an empty one.
PaintAreas ==
    {[top_left |-> <<1, 0>>, size |-> <<1, 2>>],
     [top_left |-> <<2, 1>>, size |-> <<2, 2>>],
     [top_left |-> <<1, 1>>, size |-> <<0, 1>>]}

InitPaint ==
    /\ kind = "Mock"
    /\ pins \in InitPins(BusWidth(kind))
    /\ last = None
    /\ dc = TRUE
    /\ wr = FALSE
    /\ call = NoCall("new")
    /\ prev = [op |-> "none", ok |-> TRUE, cmd |-> 0, lastBefore |-> None,
               dc |-> dc]
    /\ faults = 0
    /\ options = DefaultOptions
    /\ overflow_checks = FALSE
    /\ framebuffer_size = FRAMEBUFFER_SIZE
    /\ sleeping = FALSE
    /\ sharing = NoSharing
    /\ take_skip = NoTakeSkip
    /\ framebuf \in PaintFrameBufs

\* fbuf.fill_solid(&area, color)
PaintFill ==
    \E area \in PaintAreas, color \in ColorsOf(framebuf) :
        /\ framebuf' = fill_solid(framebuf, area, color)
        /\ FrameBufCall("fill_solid", <<area, color>>)

NextPaint == Clear \/ DrawIter \/ PaintFill

SpecPaint == InitPaint /\ [][NextPaint]_vars

-----------------------------------------------------------------------------
(* Constructing a framebuffer                                              *)

\* assert!(buffer.u8_len() >= expected_len) failed: new does not return.
AssertPanic == [tag |-> "Panic", src |-> "assert", pin |-> 0]

\* A call returned the value v.
Returned(v) == [tag |-> "Ok", src |-> "", pin |-> 0, val |-> v]

\* RawFrameBuf::new with the assertion on the exact length
new_exact(buffer, width, height, bpp) ==
    IF Len(buffer) = width * height * bpp
    THEN [res |-> Ok,
          fb |-> [buffer |-> buffer, width |-> width, height |-> height,
                  bpp |-> bpp]]
    ELSE [res |-> AssertPanic, fb |-> NoFrameBuf]

\* RawFrameBuf::new(buffer, width, height) for a colour of bpp bytes: the
\* framebuffer over the storage, or the panic of the assertion.
new(buffer, width, height, bpp) ==
    IF Len(buffer) >= width * height * bpp
    THEN [res |-> Ok,
          fb |-> [buffer |-> buffer, width |-> width, height |-> height,
                  bpp |-> bpp]]
    ELSE [res |-> AssertPanic, fb |-> NoFrameBuf]

\* RawFrameBuf::width and RawFrameBuf::height
width(fb) == fb.width
height(fb) == fb.height

\* The geometries constructed and the lengths of the storage offered for a
\* framebuffer of expected_len bytes: none, one byte short, exact, one over.
Geometries == {<<1, 1>>, <<2, 1>>, <<1, 2>>, <<2, 2>>}
StorageLens(expected_len) ==
    {0, expected_len - 1, expected_len, expected_len + 1}

\* Before the constructor is called there is no framebuffer.
InitNew ==
    /\ kind = "Mock"
    /\ pins \in InitPins(BusWidth(kind))
    /\ last = None
    /\ dc = TRUE
    /\ wr = FALSE
    /\ call = NoCall("none")
    /\ prev = [op |-> "none", ok |-> TRUE, cmd |-> 0, lastBefore |-> None,
               dc |-> dc]
    /\ faults = 0
    /\ options = DefaultOptions
    /\ overflow_checks = FALSE
    /\ framebuffer_size = FRAMEBUFFER_SIZE
    /\ sleeping = FALSE
    /\ sharing = NoSharing
    /\ take_skip = NoTakeSkip
    /\ framebuf = NoFrameBuf

\* A framebuffer was constructed.
Constructed == framebuf # NoFrameBuf

\* RawFrameBuf::<C, _>::new(buffer, width, height), called once; after a
\* panic nothing more is called.
New ==
    /\ call.op = "none"
    /\ \E g \in Geometries, fmt \in {"Rgb565", "Rgb888"} :
         \E len \in StorageLens(g[1] * g[2] * BYTES_PER_PIXEL(fmt)) :
            LET r == new([j \in 1 .. len |-> j], g[1], g[2],
                         BYTES_PER_PIXEL(fmt))
            IN /\ framebuf' = r.fb
               /\ call' = [op |-> "new", cmd |-> 0, args |-> <<>>,
                           at |-> <<len, g[1], g[2], BYTES_PER_PIXEL(fmt)>>,
                           lastBefore |-> None, ev |-> <<>>, di |-> <<>>,
                           hooks |-> <<>>, res |-> r.res]
               /\ prev' = Summary(call)
               /\ UNCHANGED <<kind, pins, last, dc, wr, faults, options,
                              overflow_checks, framebuffer_size, sleeping,
                              sharing, take_skip>>

\* fbuf.width() and fbuf.height()
Getter(op, v) ==
    /\ Constructed
    /\ call' = [op |-> op, cmd |-> 0, args |-> <<>>, at |-> <<>>,
                lastBefore |-> None, ev |-> <<>>, di |-> <<>>,
                hooks |-> <<>>, res |-> Returned(v)]
    /\ prev' = Summary(call)
    /\ UNCHANGED <<kind, pins, last, dc, wr, faults, options,
                   overflow_checks, framebuffer_size, sleeping, framebuf,
                   sharing, take_skip>>

Width == Getter("width", width(framebuf))
Height == Getter("height", height(framebuf))

NextNew ==
    \/ New
    \/ Width
    \/ Height
    \/ Constructed /\ Clear
    \/ Constructed /\ DrawPixel

SpecNew == InitNew /\ [][NextNew]_vars

-----------------------------------------------------------------------------
(* Packing colours                                                         *)

\* The colours packed: of each format every combination of the least, the
\* greatest and two more values of each channel.
PackColors ==
    {[fmt |-> "Rgb565", r |-> r, g |-> g, b |-> b] :
        r \in {0, 1, 21, 31}, g \in {0, 1, 42, 63}, b \in {0, 1, 10, 31}}
    \cup {[fmt |-> "Rgb888", r |-> r, g |-> g, b |-> b] :
        r \in {0, 1, 170, 255}, g \in {0, 2, 85, 255}, b \in {0, 3, 129, 255}}

InitPack ==
    /\ kind = "Mock"
    /\ pins \in InitPins(BusWidth(kind))
    /\ last = None
    /\ dc = TRUE
    /\ wr = FALSE
    /\ call = NoCall("none")
    /\ prev = [op |-> "none", ok |-> TRUE, cmd |-> 0, lastBefore |-> None,
               dc |-> dc]
    /\ faults = 0
    /\ options = DefaultOptions
    /\ overflow_checks = FALSE
    /\ framebuffer_size = FRAMEBUFFER_SIZE
    /\ sleeping = FALSE
    /\ sharing = NoSharing
    /\ take_skip = NoTakeSkip
    /\ framebuf = NoFrameBuf

\* color.into_raw_bytes()
IntoRawBytes ==
    \E color \in PackColors :
        /\ call' = [op |-> "into_raw_bytes", cmd |-> 0, args |-> <<>>,
                    at |-> <<color>>, lastBefore |-> None, ev |-> <<>>,
                    di |-> <<>>, hooks |-> <<>>,
                    res |-> Returned(into_raw_bytes(color))]
        /\ prev' = Summary(call)
        /\ UNCHANGED <<kind, pins, last, dc, wr, faults, options,
                       overflow_checks, framebuffer_size, sleeping, framebuf,
                       sharing, take_skip>>

SpecPack == InitPack /\ [][IntoRawBytes]_vars

-----------------------------------------------------------------------------
(* BitsPerPixel of a colour type                                           *)

\* panic!("invalid RgbColor bits per pixel"): from_rgb_color does not return.
InvalidBppPanic == [tag |-> "Panic", src |-> "invalid bpp", pin |-> 0]

\* u8::trailing_ones: the number of one bits of v below its lowest zero bit
RECURSIVE trailing_ones(_)
trailing_ones(v) == IF v % 2 = 1 THEN 1 + trailing_ones(v \div 2) ELSE 0

\* from_rgb_color taking a total of 15 bits for 16.
from_rgb_color_padded(C) ==
    LET bpp == trailing_ones(C.MAX_R) + trailing_ones(C.MAX_G)
                   + trailing_ones(C.MAX_B)
    IN  CASE bpp = 3  -> Returned("Three")
          [] bpp = 8  -> Returned("Eight")
          [] bpp = 12 -> Returned("Twelve")
          [] bpp \in {15, 16} -> Returned("Sixteen")
          [] bpp = 18 -> Returned("Eighteen")
          [] bpp = 24 -> Returned("TwentyFour")
          [] OTHER    -> InvalidBppPanic

\* BitsPerPixel::from_rgb_color::<C>() for the colour type C of the greatest
\* channel values MAX_R, MAX_G, MAX_B.
from_rgb_color(C) ==
    LET bpp == trailing_ones(C.MAX_R) + trailing_ones(C.MAX_G)
                   + trailing_ones(C.MAX_B)
    IN  CASE bpp = 3  -> Returned("Three")
          [] bpp = 8  -> Returned("Eight")
          [] bpp = 12 -> Returned("Twelve")
          [] bpp = 16 -> Returned("Sixteen")
          [] bpp = 18 -> Returned("Eighteen")
          [] bpp = 24 -> Returned("TwentyFour")
          [] OTHER    -> InvalidBppPanic

\* The colour types: every combination of channels of 0 to 8 bits, among
\* them Rgb555, Rgb565, Rgb666 and Rgb888.
ColorTypes ==
    {[MAX_R |-> 2 ^ rw - 1, MAX_G |-> 2 ^ gw - 1, MAX_B |-> 2 ^ bw - 1] :
        rw \in 0 .. 8, gw \in 0 .. 8, bw \in 0 .. 8}

\* BitsPerPixel::from_rgb_color::<C>()
FromRgbColor ==
    \E C \in ColorTypes :
        /\ call' = [op |-> "from_rgb_color", cmd |-> 0, args |-> <<>>,
                    at |-> <<C>>, lastBefore |-> None, ev |-> <<>>,
                    di |-> <<>>, hooks |-> <<>>, res |-> from_rgb_color(C)]
        /\ prev' = Summary(call)
        /\ UNCHANGED <<kind, pins, last, dc, wr, faults, options,
                       overflow_checks, framebuffer_size, sleeping, framebuf,
                       sharing, take_skip>>

SpecBpp == InitPack /\ [][FromRgbColor]_vars

-----------------------------------------------------------------------------
(* TakeSkip                                                                *)

\* A u32 as its high and its low 16 bits, and the u32 of a small number.
U32(v) == <<v \div 65536, v % 65536>>

\* `u > 0` on a u32
Positive(u) == u # <<0, 0>>

\* `u - 1` on a u32: taking one from zero overflows, and wraps to
\* u32::MAX in a build without overflow checks.
OverflowSubOne(u) == u = <<0, 0>>
WrapSubOne(u) ==
    IF u[2] > 0 THEN <<u[1], u[2] - 1>>
    ELSE IF u[1] > 0 THEN <<u[1] - 1, 65535>>
    ELSE <<65535, 65535>>

\* Iterator::next of the underlying iterator, of which `iter` holds the
\* elements still to come: the item returned and the iterator left.
iter_next(iter) ==
    IF iter = <<>> THEN [item |-> None, iter |-> <<>>]
    ELSE [item |-> Some(Head(iter)), iter |-> Tail(iter)]

\* nth_u32: n elements are passed over, the next one is returned.
RECURSIVE nth_u32(_, _)
nth_u32(iter, n) ==
    IF n = 0 THEN iter_next(iter) ELSE nth_u32(iter_next(iter).iter, n - 1)

\* TakeSkip::new
TakeSkip_new(iter, take, skip) ==
    [iter |-> iter, take |-> U32(take), take_remaining |-> U32(take),
     skip |-> skip]

\* next skipping whenever nothing remains to take, whatever take is.
TakeSkip_next_unguarded(ts) ==
    IF Positive(ts.take_remaining)
    THEN [item |-> iter_next(ts.iter).item, ovf |-> FALSE,
          ts   |-> [ts EXCEPT !.take_remaining = WrapSubOne(@),
                              !.iter = iter_next(ts.iter).iter]]
    ELSE [item |-> nth_u32(ts.iter, ts.skip).item,
          ovf  |-> OverflowSubOne(ts.take),
          ts   |-> [ts EXCEPT !.take_remaining = WrapSubOne(ts.take),
                              !.iter = nth_u32(ts.iter, ts.skip).iter]]

\* <TakeSkip as Iterator>::next: the item returned, whether a subtraction
\* overflowed, and the TakeSkip left.
TakeSkip_next(ts) ==
    IF Positive(ts.take_remaining)
    THEN [item |-> iter_next(ts.iter).item,
          ovf  |-> OverflowSubOne(ts.take_remaining),
          ts   |-> [ts EXCEPT !.take_remaining = WrapSubOne(@),
                              !.iter = iter_next(ts.iter).iter]]
    ELSE IF Positive(ts.take)
    THEN [item |-> nth_u32(ts.iter, ts.skip).item,
          ovf  |-> OverflowSubOne(ts.take),
          ts   |-> [ts EXCEPT !.take_remaining = WrapSubOne(ts.take),
                              !.iter = nth_u32(ts.iter, ts.skip).iter]]
    ELSE [item |-> None, ovf |-> FALSE, ts |-> ts]

-----------------------------------------------------------------------------
(* A TakeSkip on its own                                                   *)

\* The longest underlying iterator, and the largest take and skip.
MaxIter == 11
MaxTake == 3
MaxSkip == 2

\* The underlying iterators: the elements 10, 20, ... of every length.
Iterators == {[p \in 1 .. n |-> 10 * p] : n \in 0 .. MaxIter}

\* TakeSkip::new(iter, take, skip) of every iterator, take and skip, in a
\* build with or without overflow checks.  The observer keeps the
\* arguments in call.at and the items yielded so far in call.args.
InitTakeSkip ==
    /\ kind = "Mock"
    /\ pins \in InitPins(BusWidth(kind))
    /\ last = None
    /\ dc = TRUE
    /\ wr = FALSE
    /\ prev = [op |-> "none", ok |-> TRUE, cmd |-> 0, lastBefore |-> None,
               dc |-> dc]
    /\ faults = 0
    /\ options = DefaultOptions
    /\ overflow_checks \in BOOLEAN
    /\ framebuffer_size = FRAMEBUFFER_SIZE
    /\ sleeping = FALSE
    /\ sharing = NoSharing
    /\ framebuf = NoFrameBuf
    /\ \E iter \in Iterators, take \in 0 .. MaxTake, skip \in 0 .. MaxSkip :
          /\ take_skip = TakeSkip_new(iter, take, skip)
          /\ call = [NoCall("new") EXCEPT !.at = <<iter, take, skip>>]

\* iter.next(), called up to twice more than the underlying iterator has
\* elements; call.cmd counts the calls.
TakeSkipNext ==
    /\ ~Panicked(call.res)
    /\ call.cmd < Len(call.at[1]) + 2
    /\ LET r == TakeSkip_next(take_skip)
       IN  /\ take_skip' = r.ts
           /\ call' = [call EXCEPT
                          !.op = "next",
                          !.cmd = @ + 1,
                          !.args = IF r.item = None \/ (r.ovf /\ overflow_checks)
                                   THEN @ ELSE Append(@, r.item[1]),
                          !.res = IF r.ovf /\ overflow_checks THEN Panic
                                  ELSE Returned(r.item)]
    /\ prev' = Summary(call)
    /\ UNCHANGED <<kind, pins, last, dc, wr, faults, options,
                   overflow_checks, framebuffer_size, sleeping, framebuf,
                   sharing>>

SpecTakeSkip == InitTakeSkip /\ [][TakeSkipNext]_vars

-----------------------------------------------------------------------------
(* Two tasks on one transport                                              *)

\* Each of two tasks has a Display over `&mut` the one transport and makes
\* one transfer.  A task can be suspended at every call of the transport,
\* which is awaited, and nowhere else.
Tasks == {1, 2}

\* The transfer of each task: its rectangle (x, y, width, height) and its
\* pixel data.
TaskTransfers ==
    <<[at |-> <<0, 0, 2, 1>>, data |-> <<17, 17>>],
      [at |-> <<4, 4, 1, 1>>, data |-> <<34>>]>>

\* show_raw_data that takes the window for set: only begin-memory-write and
\* the data are sent.
TaskCalls_window_kept(t) ==
    send_data_slice(
        write_memory_start(Hook(Machine(0, FALSE), "write_memory_start", <<>>),
                           "Mock"),
        "Mock", TaskTransfers[t].data).di

\* The calls of the transport that show_raw_data of task t makes, in order.
TaskCalls(t) ==
    show_raw_data(Machine(0, FALSE), "Mock", DefaultOptions,
                  TaskTransfers[t].at[1], TaskTransfers[t].at[2],
                  TaskTransfers[t].at[3], TaskTransfers[t].at[4],
                  TaskTransfers[t].data).di

\* The tasks either take a lock around their transfer, all of them, or
\* none does.
InitShare ==
    /\ kind = "Mock"
    /\ pins \in InitPins(BusWidth(kind))
    /\ last = None
    /\ dc = TRUE
    /\ wr = FALSE
    /\ call = NoCall("init")
    /\ prev = [op |-> "none", ok |-> TRUE, cmd |-> 0, lastBefore |-> None,
               dc |-> dc]
    /\ faults = 0
    /\ options = DefaultOptions
    /\ overflow_checks = FALSE
    /\ framebuffer_size = FRAMEBUFFER_SIZE
    /\ sleeping = FALSE
    /\ framebuf = NoFrameBuf
    /\ \E locking \in BOOLEAN :
          sharing = [locking |-> locking, holder |-> 0,
                     issued |-> <<0, 0>>, wire |-> <<>>]
    /\ take_skip = NoTakeSkip

\* A step of a task changes what the tasks share and nothing else.
Shares(s) ==
    /\ sharing' = s
    /\ UNCHANGED <<kind, pins, last, dc, wr, call, prev, faults, options,
                   overflow_checks, framebuffer_size, sleeping, framebuf,
                   take_skip>>

\* Task t takes the lock before its transfer.
Lock(t) ==
    /\ sharing.locking
    /\ sharing.holder = 0
    /\ sharing.issued[t] = 0
    /\ Shares([sharing EXCEPT !.holder = t])

\* <&mut T as Interface>::send_command / send_data_slice: the next call of
\* task t reaches the transport.
Forward(t) ==
    /\ sharing.locking => sharing.holder = t
    /\ sharing.issued[t] < Len(TaskCalls(t))
    /\ Shares([sharing EXCEPT
                  !.issued[t] = @ + 1,
                  !.wire = Append(@, [task |-> t,
                                      call |-> TaskCalls(t)[
                                                   sharing.issued[t] + 1]])])

\* Task t releases the lock after its transfer.
Unlock(t) ==
    /\ sharing.locking
    /\ sharing.holder = t
    /\ sharing.issued[t] = Len(TaskCalls(t))
    /\ Shares([sharing EXCEPT !.holder = 0])

NextShare == \E t \in Tasks : Lock(t) \/ Forward(t) \/ Unlock(t)

SpecShare == InitShare /\ [][NextShare]_vars

-----------------------------------------------------------------------------
(* Properties of the generic bus                                           *)

IsSetValue(c) == c.op = "set_value"

\* The events of call c are writes of data pins 0, 1, 2, ... in this order,
\* each to the level of its bit of the call's word.
WritesFromPin0(c) ==
    \A j \in 1 .. Len(c.ev) :
        /\ c.ev[j].k = "pin"
        /\ c.ev[j].id = j - 1
        /\ c.ev[j].lvl = Bit(c.cmd, j - 1)

\* Call c wrote all n pins if it succeeded, and pins 0 .. k if pin k failed.
FullRewrite(c, n) ==
    /\ WritesFromPin0(c)
    /\ Len(c.ev) >= 1
    /\ IsOk(c.res) => Len(c.ev) = n

\* C1: a set_value(w) made while the bus remembers w performs no pin
\* operation, returns Ok and leaves w remembered; so the second of two
\* consecutive set_value(w) calls, the first of which succeeded, performs no
\* pin operation.
C1_SkipUnchanged ==
    /\ (IsSetValue(call) /\ call.lastBefore = Some(call.cmd))
          => (call.ev = <<>> /\ IsOk(call.res) /\ last = Some(call.cmd))
    /\ (IsSetValue(call) /\ IsSetValue(prev) /\ prev.ok /\ prev.cmd = call.cmd)
          => call.ev = <<>>

C1_Witness ==
    /\ IsSetValue(call) /\ IsSetValue(prev) /\ prev.ok
    /\ prev.cmd = call.cmd /\ call.cmd = 42
    /\ call.lastBefore = Some(42)
    /\ call.ev = <<>>

\* C2: a failed set_value returns the error of the pin whose operation
\* failed, that operation is the last of the call and no pin with a higher
\* number was touched, the bus remembers nothing afterwards, and the
\* set_value after a failed one writes the pins from pin 0 on, all of them
\* if it succeeds, whatever its word.
C2_FailureInvalidates ==
    /\ (IsSetValue(call) /\ ~IsOk(call.res)) =>
          LET e == call.ev[Len(call.ev)]
          IN  /\ Len(call.ev) >= 1
              /\ e.k = "pin" /\ ~e.ok
              /\ call.res = PinError("data", e.id)
              /\ \A j \in 1 .. Len(call.ev) - 1 :
                    call.ev[j].ok /\ call.ev[j].id < e.id
              /\ last = None
    /\ (IsSetValue(call) /\ IsOk(call.res)) =>
          \A j \in 1 .. Len(call.ev) : call.ev[j].ok
    /\ (IsSetValue(call) /\ IsSetValue(prev) /\ ~prev.ok) =>
          FullRewrite(call, BusWidth(kind))

C2_Witness ==
    /\ IsSetValue(call) /\ IsSetValue(prev) /\ ~prev.ok
    /\ prev.lastBefore = Some(call.cmd)
    /\ IsOk(call.res)
    /\ Len(call.ev) = BusWidth(kind)

\* C3: whenever the bus remembers a word v, every pin i is at the level of
\* bit i of v.
C3_PinsSpellLast ==
    last # None =>
        \A i \in 0 .. BusWidth(kind) - 1 : pins[i] = Bit(last[1], i)

\* A word is remembered again after a failed pin operation that changed its
\* pin.
C3_Witness ==
    /\ faults > 0
    /\ IsSetValue(call) /\ IsSetValue(prev) /\ ~prev.ok
    /\ last = Some(42)
    /\ PinsWord(pins, BusWidth(kind)) = 42

\* C4: new and release perform no pin operation and leave every pin as it
\* is, a new bus remembers nothing, and the first set_value after new
\* writes the pins from pin 0 on, all of them if it succeeds.
C4_NewBus ==
    /\ last = None
    /\ [][ /\ call'.op \in {"new", "release"} =>
                (pins' = pins /\ call'.ev = <<>>)
           /\ call'.op = "new" => last' = None
           /\ (call.op = "new" /\ IsSetValue(call')) =>
                (call'.lastBefore = None /\ FullRewrite(call', BusWidth(kind)))
         ]_vars

C4_Witness ==
    /\ prev.op = "new" /\ IsSetValue(call)
    /\ call.cmd = 0
    /\ IsOk(call.res)
    /\ Len(call.ev) = 16

-----------------------------------------------------------------------------
(* Properties of the transports                                            *)

IsSendCommand(c) == c.op = "send_command"
IsSendData(c) == c.op = "send_data"

\* What an event did, without the levels observed when it happened.
Did(e) == [k |-> e.k, id |-> e.id, lvl |-> e.lvl, data |-> e.data]

\* C5: a successful send_command on the serial transport is exactly:
\* selector low, one write of [instruction] (selector low), selector high,
\* one write of the parameters (selector high), also for no parameters.
C5_SerialCommandBursts ==
    (kind = "Serial4Line" /\ IsSendCommand(call) /\ IsOk(call.res)) =>
        /\ Len(call.ev) = 4
        /\ Did(call.ev[1]) = [k |-> "dc", id |-> 0, lvl |-> FALSE, data |-> <<>>]
        /\ Did(call.ev[2]) = [k |-> "spi", id |-> 0, lvl |-> FALSE,
                              data |-> <<call.cmd>>]
        /\ call.ev[2].dcAt = FALSE
        /\ Did(call.ev[3]) = [k |-> "dc", id |-> 0, lvl |-> TRUE, data |-> <<>>]
        /\ Did(call.ev[4]) = [k |-> "spi", id |-> 0, lvl |-> FALSE,
                              data |-> call.args]
        /\ call.ev[4].dcAt = TRUE

C5_Witness ==
    /\ kind = "Serial4Line" /\ IsSendCommand(call) /\ IsOk(call.res)
    /\ call.cmd = 42 /\ call.args = <<0, 0, 0, 239>>
    /\ call.ev[2].data = <<42>> /\ call.ev[4].data = <<0, 0, 0, 239>>

\* The events that put words on the wire: SPI writes and rising
\* write-enable edges.
Transmits(e) == e.k = "spi" \/ (e.k = "wr" /\ e.lvl)

\* C6: after a successful send_command the selector is high on both
\* transports, send_data performs no selector operation, and a send_data
\* that directly follows a successful send_command transmits every word
\* with the selector high.
C6_DataMode ==
    /\ (IsSendCommand(call) /\ IsOk(call.res)) => dc = TRUE
    /\ IsSendData(call) =>
          \A j \in 1 .. Len(call.ev) : call.ev[j].k # "dc"
    /\ (IsSendData(call) /\ IsSendCommand(prev) /\ prev.ok) =>
          /\ dc = TRUE
          /\ \A j \in 1 .. Len(call.ev) :
                Transmits(call.ev[j]) => call.ev[j].dcAt = TRUE

C6_Witness ==
    /\ kind = "Parallel8Bit"
    /\ IsSendData(call) /\ IsSendCommand(prev) /\ prev.ok
    /\ IsOk(call.res) /\ Len(call.args) = 2
    /\ \E j \in 1 .. Len(call.ev) :
          Transmits(call.ev[j]) /\ call.ev[j].dcAt = TRUE

\* The control-pin events of a call (data-pin writes left out), each with
\* the word sampled at a rising write-enable edge.
IsCtrl(e) == e.k # "pin"
Ctrl(ev) == SelectSeq(ev, IsCtrl)
Sampled(e) == [k |-> e.k, lvl |-> e.lvl, w |-> e.busAt]

\* The control-pin events of the strobes of `words`, in order.
RECURSIVE Strobes(_)
Strobes(words) ==
    IF words = <<>> THEN <<>>
    ELSE << [k |-> "wr", lvl |-> FALSE, w |-> <<>>],
            [k |-> "wr", lvl |-> TRUE, w |-> <<Head(words)>>] >>
         \o Strobes(Tail(words))

\* Data pins are written only inside a strobe: after write-enable went low
\* and before it goes high.
PinsInsideStrobes(ev) ==
    \A j \in 1 .. Len(ev) :
        ev[j].k = "pin" =>
            /\ j > 1 /\ j < Len(ev)
            /\ ev[j - 1].k = "pin" \/ (ev[j - 1].k = "wr" /\ ~ev[j - 1].lvl)
            /\ ev[j + 1].k = "pin" \/ (ev[j + 1].k = "wr" /\ ev[j + 1].lvl)

SampledCtrl(ev) == [j \in 1 .. Len(Ctrl(ev)) |-> Sampled(Ctrl(ev)[j])]

\* C7: on the parallel transport a successful send_command is selector low,
\* the strobe of the instruction, selector high, then one strobe per
\* parameter byte in order; a successful send_data is one strobe per word in
\* order; a strobe is write-enable low, the bus set to the word, write-enable
\* high.
C7_ParallelStrobes ==
    (kind # "Serial4Line" /\ IsOk(call.res)) =>
        /\ IsSendCommand(call) =>
              /\ SampledCtrl(call.ev) =
                    << [k |-> "dc", lvl |-> FALSE, w |-> <<>>] >>
                    \o Strobes(<<call.cmd>>)
                    \o << [k |-> "dc", lvl |-> TRUE, w |-> <<>>] >>
                    \o Strobes(call.args)
              /\ PinsInsideStrobes(call.ev)
        /\ IsSendData(call) =>
              /\ SampledCtrl(call.ev) = Strobes(call.args)
              /\ PinsInsideStrobes(call.ev)

C7_Witness ==
    /\ kind = "Parallel8Bit" /\ IsSendCommand(call) /\ IsOk(call.res)
    /\ call.args = <<0, 0, 0, 239>>
    /\ Len(Ctrl(call.ev)) = 12
    /\ Len(call.ev) > 12

\* The events of call c with no fault.  What the steps of a call do
\* depends on the state it is made in only through the word the bus
\* remembers.
Unfaulted(c) ==
    LET s == [Machine(0, FALSE) EXCEPT !.last = c.lastBefore]
    IN  IF IsSendCommand(c) THEN send_command(s, kind, c.cmd, c.args).ev
        ELSE send_data_slice(s, kind, c.args).ev

\* The last successful event of kind k in ev left its pin at level lvl.
LastLevel(ev, k, lvl) ==
    LET js == { j \in 1 .. Len(ev) : ev[j].k = k }
    IN  js # {} =>
            LET j == CHOOSE x \in js : \A y \in js : y <= x
            IN  ev[j].ok => ev[j].lvl = lvl

\* C8: a transport call whose step fails returns the error at once: the
\* failed step is the last step of the call, the steps before it are those
\* of the call without the fault (none is repeated or undone), and the pins
\* stay as the last successful step left them.
C8_NoRetryNoRollback ==
    (IsSendCommand(call) \/ IsSendData(call)) =>
        LET ev == call.ev
            ref == Unfaulted(call)
        IN  /\ Len(ev) <= Len(ref)
            /\ \A j \in 1 .. Len(ev) : Did(ev[j]) = Did(ref[j])
            /\ \A j \in 1 .. Len(ev) - 1 : ev[j].ok
            /\ IsOk(call.res) => (Len(ev) = Len(ref) /\
                                  (ev # <<>> => ev[Len(ev)].ok))
            /\ ~IsOk(call.res) => (ev # <<>> /\ ~ev[Len(ev)].ok)
            /\ LastLevel(ev, "dc", dc)
            /\ LastLevel(ev, "wr", wr)

\* A send_command whose selector-high step failed: the instruction went out
\* and no parameter followed.
C8_Witness ==
    /\ kind = "Parallel8Bit" /\ IsSendCommand(call) /\ ~IsOk(call.res)
    /\ call.args = <<239>>
    /\ call.ev[Len(call.ev)].k = "dc" /\ call.ev[Len(call.ev)].lvl
    /\ call.ev[1].ok /\ dc = FALSE

\* The error variant of a failing step of kind k.
Variant(k) ==
    CASE k = "dc"  -> "Dc"
      [] k = "wr"  -> "Wr"
      [] k = "pin" -> "Bus"
      [] k = "spi" -> "Spi"

\* C9: the error of a transport call carries the variant of the step that
\* failed (Dc, Wr or Bus on the parallel transport, Dc or Spi on the serial
\* one) and the error of that very pin or device.
C9_ErrorTag ==
    ((IsSendCommand(call) \/ IsSendData(call)) /\ ~IsOk(call.res)) =>
        LET e == call.ev[Len(call.ev)]
        IN  /\ ~e.ok
            /\ call.res.tag = Variant(e.k)
            /\ call.res.src = (IF e.k = "pin" THEN "data" ELSE e.k)
            /\ call.res.pin = e.id
            /\ kind = "Serial4Line" => call.res.tag \in {"Dc", "Spi"}
            /\ kind # "Serial4Line" => call.res.tag \in {"Dc", "Wr", "Bus"}

C9_Witness ==
    /\ kind = "Parallel8Bit" /\ IsSendData(call)
    /\ call.res.tag = "Bus" /\ call.res.pin = 3
    /\ call.ev[Len(call.ev)].k = "pin"
    /\ call.ev[1].k = "wr"

-----------------------------------------------------------------------------
(* Properties of the display                                               *)

IsShowRawData(c) == c.op = "show_raw_data"

\* The inclusive end of the rectangle of a transfer that did not overflow.
EndOf(at) == <<at[1] + at[3] - 1, at[2] + at[4] - 1>>

\* The Interface calls and the hardware operations of the address-window
\* sequence of the transfer c under the options in force, and of that
\* sequence followed by begin-memory-write, when nothing fails.
WindowThenStart(c) ==
    LET set == set_address_window(Machine(0, FALSE), kind, options,
                                  c.at[1], c.at[2],
                                  WrapU16(EndOf(c.at)[1]), WrapU16(EndOf(c.at)[2]))
    IN  [window |-> set.di, both |-> write_memory_start(set, kind)]

\* C10: a successful show_raw_data issues, in this order and with nothing
\* in between, the set-address-window sequence (six commands on the
\* ILI9225), then begin-memory-write (0x22 without parameters), then
\* exactly one send_data whose argument is the caller's whole slice in
\* order; on the serial transport the hardware operations of the call are
\* those of the seven commands followed by exactly one bus write, of the
\* unmodified slice, with the selector high.
C10_TransferOrder ==
    (IsShowRawData(call) /\ IsOk(call.res)) =>
        LET ref == WindowThenStart(call)
            n   == Len(ref.window)
            m   == Len(ref.both.ev)
        IN  /\ n = 6
            /\ \A j \in 1 .. n : ref.window[j].op = "send_command"
            /\ Len(call.di) = n + 2
            /\ SubSeq(call.di, 1, n) = ref.window
            /\ call.di[n + 1] = [op |-> "send_command", cmd |-> 34, args |-> <<>>]
            /\ call.di[n + 2] = [op |-> "send_data", cmd |-> 0, args |-> call.args]
            /\ kind = "Serial4Line" =>
                  /\ Len(call.ev) = m + 1
                  /\ \A j \in 1 .. m : Did(call.ev[j]) = Did(ref.both.ev[j])
                  /\ call.ev[m + 1].k = "spi"
                  /\ call.ev[m + 1].data = call.args
                  /\ call.ev[m + 1].dcAt

\* A successful transfer of two different words on the serial transport,
\* after a transfer that failed, with the panel rotated.
C10_Witness ==
    /\ IsShowRawData(call) /\ IsOk(call.res)
    /\ kind = "Serial4Line"
    /\ Len(call.args) = 2 /\ call.args[1] # call.args[2]
    /\ prev.op = "show_raw_data" /\ ~prev.ok
    /\ options.orientation.rotation = "Deg90"


-----------------------------------------------------------------------------
(* Properties of the address window                                        *)

\* The first hook call c made and the arguments it gave it.
FirstHook(c) == c.hooks[1]

\* Call c handed a window to the controller.
WindowSet(c) ==
    c.hooks # <<>> /\ FirstHook(c).hook = "update_address_window"

\* The window call c handed to the controller: (sx, sy, ex, ey).
WindowOf(c) == SubSeq(FirstHook(c).args, 2, 5)

\* The mapping of options o reverses no axis and swaps nothing.
PlainMapping(o) ==
    LET mapping == MemoryMapping(o.orientation)
    IN  /\ ~mapping.reverse_rows
        /\ ~mapping.reverse_columns
        /\ ~mapping.swap_rows_and_columns

\* The rectangle (x, y, width, height) moved by offset off, as the window
\* (sx, sy, ex, ey).
Translated(at, off) ==
    <<at[1] + off[1], at[2] + off[2],
      at[1] + at[3] - 1 + off[1], at[2] + at[4] - 1 + off[2]>>

\* Every coordinate of window w is a u16.
FitsU16(w) == \A i \in 1 .. 4 : w[i] \in 0 .. 65535

\* C11: when the mapping of the orientation reverses nothing and swaps
\* nothing, a transfer of (x, y, width, height) that returns hands the
\* controller the window (x+ox, y+oy, x+width-1+ox, y+height-1+oy), for
\* every rectangle whose translated corners fit in 16 bits; with framebuffer
\* (8,8), offset (2,2), 0 degrees unmirrored, transfer(0,0,4,4) gives
\* (2,2,5,5).
C11_TranslatedWindow ==
    /\ (/\ IsShowRawData(call) /\ ~Panicked(call.res)
        /\ PlainMapping(options)
        /\ FitsU16(Translated(call.at, options.display_offset)))
          => /\ WindowSet(call)
             /\ WindowOf(call) = Translated(call.at, options.display_offset)
    /\ (/\ IsShowRawData(call) /\ ~Panicked(call.res)
        /\ framebuffer_size = <<8, 8>>
        /\ options.display_offset = <<2, 2>>
        /\ options.orientation = [rotation |-> "Deg0", mirrored |-> FALSE]
        /\ call.at = <<0, 0, 4, 4>>)
          => WindowOf(call) = <<2, 2, 5, 5>>

C11_Witness ==
    /\ IsShowRawData(call) /\ IsOk(call.res)
    /\ framebuffer_size = <<8, 8>>
    /\ options.display_offset = <<2, 2>>
    /\ options.orientation = [rotation |-> "Deg0", mirrored |-> FALSE]
    /\ call.at = <<0, 0, 4, 4>>
    /\ WindowSet(call)
    /\ WindowOf(call) = <<2, 2, 5, 5>>


\* The offset the reverse and swap rules give for options o on a
\* framebuffer of size fb: the column rule, then the row rule, then the
\* swap.
RuleOffset(o, fb) ==
    LET mapping == MemoryMapping(o.orientation)
        x == IF mapping.reverse_columns
             THEN fb[1] - (o.display_size[1] + o.display_offset[1])
             ELSE o.display_offset[1]
        y == IF mapping.reverse_rows
             THEN fb[2] - (o.display_size[2] + o.display_offset[2])
             ELSE o.display_offset[2]
    IN  IF mapping.swap_rows_and_columns THEN <<y, x>> ELSE <<x, y>>

\* C12: for every combination of swap, reverse_rows and reverse_columns
\* the window of a transfer that returns is the rectangle moved by the
\* offset got from the display offset by the column rule
\* x := FramebufferSize.width - (DisplaySize.width + x), then the row rule
\* y := FramebufferSize.height - (DisplaySize.height + y), then the swap;
\* under 180 degrees unmirrored both axes are moved by
\* FramebufferSize - (DisplaySize + offset).
C12_ReverseThenSwap ==
    /\ (/\ IsShowRawData(call) /\ ~Panicked(call.res)
        /\ FitsU16(Translated(call.at, RuleOffset(options, framebuffer_size))))
          => /\ WindowSet(call)
             /\ WindowOf(call) =
                   Translated(call.at, RuleOffset(options, framebuffer_size))
    /\ (/\ IsShowRawData(call) /\ ~Panicked(call.res)
        /\ options.orientation = [rotation |-> "Deg180", mirrored |-> FALSE]
        /\ call.at = <<0, 0, 4, 4>>)
          => /\ WindowOf(call)[1] =
                   framebuffer_size[1]
                     - (options.display_size[1] + options.display_offset[1])
             /\ WindowOf(call)[2] =
                   framebuffer_size[2]
                     - (options.display_size[2] + options.display_offset[2])

\* A transfer with both axes reversed and swapped, on a panel whose four
\* margins differ.
C12_Witness ==
    /\ IsShowRawData(call) /\ IsOk(call.res)
    /\ framebuffer_size = <<8, 8>>
    /\ options.display_size = <<5, 4>>
    /\ options.display_offset = <<1, 3>>
    /\ MemoryMapping(options.orientation) =
          [reverse_rows |-> TRUE, reverse_columns |-> TRUE,
           swap_rows_and_columns |-> TRUE]
    /\ call.at = <<0, 0, 4, 4>>
    /\ WindowOf(call) = <<1, 2, 4, 5>>


\* The offset call c moved its rectangle by, in u16 arithmetic.
UsedOffset(c) ==
    <<WrapU16(WindowOf(c)[1] - c.at[1]), WrapU16(WindowOf(c)[2] - c.at[2])>>

\* The rules applied again, to the offset call c used: the offset they give
\* for the same panel placed at that offset.
AppliedTwice(c) ==
    PhysicalOffset([options EXCEPT !.display_offset = UsedOffset(c)],
                   framebuffer_size).v

\* The mapping of options o swaps the axes and reverses at least one.
SwapsAndReverses(o) ==
    LET mapping == MemoryMapping(o.orientation)
    IN  /\ mapping.swap_rows_and_columns
        /\ mapping.reverse_rows \/ mapping.reverse_columns

\* C13 as stated: for each of the 8 orientations, applying the reverse and
\* swap rules twice to a display offset returns the original offset.
C13_InvolutionAll ==
    (IsShowRawData(call) /\ WindowSet(call))
        => AppliedTwice(call) = options.display_offset

\* C13, amended: for each orientation whose mapping does not both swap the
\* axes and reverse one, applying the reverse and swap rules twice to a
\* display offset returns the original offset.
C13_InvolutionUnlessSwapReversed ==
    (IsShowRawData(call) /\ WindowSet(call) /\ ~SwapsAndReverses(options))
        => AppliedTwice(call) = options.display_offset

\* A transfer with the rows reversed on a panel whose margins differ: the
\* offset used is not the display offset, the rules applied to it give the
\* display offset back.
C13_Witness ==
    /\ IsShowRawData(call) /\ WindowSet(call)
    /\ MemoryMapping(options.orientation) =
          [reverse_rows |-> TRUE, reverse_columns |-> FALSE,
           swap_rows_and_columns |-> FALSE]
    /\ options.display_offset = <<1, 3>>
    /\ UsedOffset(call) = <<1, 1>>
    /\ AppliedTwice(call) = <<1, 3>>


-----------------------------------------------------------------------------
(* Properties of the power state and the stored options                    *)

IsSleep(c) == c.op = "sleep"

IsWake(c) == c.op = "wake"

\* The operations of the display other than sleep and wake.
OtherOps ==
    {"show_raw_data", "set_orientation", "set_tearing_effect",
     "set_vertical_scroll_region", "set_vertical_scroll_offset"}

\* C14: the display is awake right after bring-up, and is_sleeping()
\* changes only in a step that is a sleep() or a wake(): a transfer,
\* set_orientation, scroll region, scroll offset or tearing-effect call
\* leaves it as it was, whether the call succeeds or fails.
C14_PowerOnlyBySleepWake ==
    /\ call.op = "init" => ~sleeping
    /\ [][/\ sleeping' # sleeping => (IsSleep(call') \/ IsWake(call'))
          /\ call'.op \in OtherOps => sleeping' = sleeping]_vars

\* A transfer failed while the display was asleep, right after the sleep
\* that put it to sleep, and it still is.
C14_Witness ==
    /\ IsShowRawData(call) /\ ~IsOk(call.res)
    /\ prev.op = "sleep" /\ prev.ok
    /\ sleeping


\* The commands and waits of the sleep and of the wake sequence of the
\* ILI9225.
SleepSequence ==
    <<[op |-> "send_command", cmd |-> 7,  args |-> <<0, 0>>],
      [op |-> "delay_us", cmd |-> 50000, args |-> <<>>],
      [op |-> "send_command", cmd |-> 17, args |-> <<0, 7>>],
      [op |-> "delay_us", cmd |-> 50000, args |-> <<>>],
      [op |-> "send_command", cmd |-> 16, args |-> <<10, 1>>]>>

WakeSequence ==
    <<[op |-> "send_command", cmd |-> 16, args |-> <<10, 0>>],
      [op |-> "send_command", cmd |-> 17, args |-> <<16, 59>>],
      [op |-> "delay_us", cmd |-> 50000, args |-> <<>>],
      [op |-> "send_command", cmd |-> 7,  args |-> <<16, 23>>]>>

\* Call c issued the whole sequence seq and every operation of it
\* succeeded.
SequenceDone(c, seq) ==
    /\ c.di = seq
    /\ \A j \in 1 .. Len(c.ev) : c.ev[j].ok

\* Call c returned the error of the transport: that of its last hardware
\* operation, which failed, as SpiError::Dc or SpiError::Spi.
TransportError(c) ==
    /\ c.ev # <<>>
    /\ ~c.ev[Len(c.ev)].ok
    /\ c.res = [tag |-> IF c.ev[Len(c.ev)].k = "dc" THEN "Dc" ELSE "Spi",
                src |-> c.ev[Len(c.ev)].k, pin |-> 0]

\* C15: sleep() leaves the display asleep exactly when the whole sleep
\* sequence succeeded and wake() leaves it awake exactly when the whole
\* wake sequence succeeded; when the sequence fails the call returns the
\* error of the transport and is_sleeping() is what it was before.
C15_SetAfterSequence ==
    [][/\ IsSleep(call') =>
             /\ IsOk(call'.res) <=> SequenceDone(call', SleepSequence)
             /\ IsOk(call'.res) => sleeping'
             /\ ~IsOk(call'.res) =>
                   TransportError(call') /\ sleeping' = sleeping
       /\ IsWake(call') =>
             /\ IsOk(call'.res) <=> SequenceDone(call', WakeSequence)
             /\ IsOk(call'.res) => ~sleeping'
             /\ ~IsOk(call'.res) =>
                   TransportError(call') /\ sleeping' = sleeping]_vars

\* A sleep() of an awake display failed at its last command: the display
\* is still awake.
C15_Witness ==
    /\ IsSleep(call) /\ ~IsOk(call.res)
    /\ Len(call.di) = 5
    /\ ~sleeping


\* No hardware operation of call c failed.
NoFault(c) == \A j \in 1 .. Len(c.ev) : c.ev[j].ok

\* Call c went to the transport: it issued the whole sequence seq and
\* succeeded unless an operation failed, and then it returned the error of
\* the transport.
Issues(c, seq) ==
    /\ c.di # <<>> /\ c.ev # <<>>
    /\ NoFault(c) => (IsOk(c.res) /\ c.di = seq)
    /\ ~IsOk(c.res) => TransportError(c)

\* The Interface calls of the transfer c when nothing fails.
TransferSequence(c) ==
    WindowThenStart(c).both.di
        \o <<[op |-> "send_data", cmd |-> 0, args |-> c.args]>>

\* C16: the power state gates nothing: a transfer made while the display
\* is asleep is not rejected and issues the address-window, memory-write
\* and data sequence it issues when awake; sleep() while asleep and wake()
\* while awake issue their command sequence again.
C16_NeverGated ==
    [][/\ IsShowRawData(call') =>
             /\ Issues(call', TransferSequence(call'))
             /\ Len(TransferSequence(call')) = 8
       /\ (IsSleep(call') /\ sleeping) => Issues(call', SleepSequence)
       /\ (IsWake(call') /\ ~sleeping) => Issues(call', WakeSequence)]_vars

\* A transfer succeeded while the display was asleep.
C16_Witness ==
    /\ IsShowRawData(call) /\ IsOk(call.res)
    /\ sleeping
    /\ Len(call.di) = 8
    /\ call.di[8] = [op |-> "send_data", cmd |-> 0, args |-> <<42, 255>>]


\* The operations other than set_orientation.
NonOrientationOps ==
    {"show_raw_data", "sleep", "wake", "set_tearing_effect",
     "set_vertical_scroll_region", "set_vertical_scroll_offset"}

\* What is stored of the panel: orientation, display offset, display size.
Stored(o) == <<o.orientation, o.display_offset, o.display_size>>

\* The stored orientation changes only in a set_orientation step, offset
\* and size in none, and the other operations change none of the three.
StoredOnlyBySetOrientation ==
    /\ options'.orientation # options.orientation
          => call'.op = "set_orientation"
    /\ options'.display_offset = options.display_offset
    /\ options'.display_size = options.display_size
    /\ call'.op \in NonOrientationOps => Stored(options') = Stored(options)

\* Call c of sleep, wake, scroll region, scroll offset or tearing effect
\* under options o called its hook once, with the arguments it was called
\* with (and, for the tearing effect, the options).
PassedThrough(c, o) ==
    /\ c.op \in {"sleep", "wake"} =>
          c.hooks = <<[hook |-> c.op, args |-> <<>>]>>
    /\ c.op \in {"set_vertical_scroll_region", "set_vertical_scroll_offset"}
          => c.hooks = <<[hook |-> c.op, args |-> c.at]>>
    /\ c.op = "set_tearing_effect" =>
          c.hooks = <<[hook |-> c.op, args |-> <<c.at[1], o>>]>>

\* Transfer c handed its rectangle to the window hook as it got it.
RectanglePassedThrough(c) ==
    WindowSet(c) =>
        WindowOf(c) = <<c.at[1], c.at[2], WrapU16(EndOf(c.at)[1]),
                        WrapU16(EndOf(c.at)[2])>>

\* C17 as stated: the stored orientation changes only through
\* set_orientation, display offset and size never change, and transfers,
\* sleep, wake, scroll region, scroll offset and tearing-effect calls leave
\* the three unchanged and hand their arguments to the controller hook
\* with no offset or orientation transform applied.
C17_AllPassThrough ==
    [][/\ StoredOnlyBySetOrientation
       /\ PassedThrough(call', options)
       /\ IsShowRawData(call') => RectanglePassedThrough(call')]_vars

\* C17, amended: the stored orientation changes only through
\* set_orientation, display offset and size never change, and transfers,
\* sleep, wake, scroll region, scroll offset and tearing-effect calls leave
\* the three unchanged; sleep, wake, scroll region, scroll offset and
\* tearing-effect calls hand their arguments to the controller hook with
\* no offset or orientation transform applied.
C17_StoredAndPassThrough ==
    [][/\ StoredOnlyBySetOrientation
       /\ PassedThrough(call', options)]_vars

\* A scroll region set on the rotated panel with an offset: the hook got
\* the two areas as given.
C17_Witness ==
    /\ call.op = "set_vertical_scroll_region"
    /\ options.orientation.rotation = "Deg90"
    /\ options.display_offset = <<2, 2>>
    /\ call.hooks = <<[hook |-> "set_vertical_scroll_region",
                       args |-> <<10, 20>>]>>


IsSetOrientation(c) == c.op = "set_orientation"

\* The Interface calls of the option-update hook of the ILI9225 for
\* options o when nothing fails.
UpdateOptionsSequence(o) == update_options(Machine(0, FALSE), kind, o).di

\* C18: after set_orientation(o), orientation() is o, whether the call
\* succeeded or failed; the call invoked the option-update hook exactly
\* once, with the options carrying o, and returned what the hook
\* returned: Ok when the hook's whole sequence went through, else the
\* error of the transport.
C18_StoreThenHook ==
    IsSetOrientation(call) =>
        /\ options.orientation = call.at[1]
        /\ call.hooks = <<[hook |-> "update_options", args |-> <<options>>]>>
        /\ Issues(call, UpdateOptionsSequence(options))
        /\ IsOk(call.res) => call.di = UpdateOptionsSequence(options)
        /\ Len(UpdateOptionsSequence(options)) = 2

\* The first call after bring-up is a set_orientation that failed: the
\* orientation is the new one, not the default.
C18_Witness ==
    /\ IsSetOrientation(call) /\ ~IsOk(call.res)
    /\ prev.op = "init"
    /\ call.at = <<[rotation |-> "Deg90", mirrored |-> FALSE]>>
    /\ options.orientation = [rotation |-> "Deg90", mirrored |-> FALSE]
    /\ options.orientation # DefaultOptions.orientation


-----------------------------------------------------------------------------
(* Properties of the framebuffer                                           *)

\* The bytes pixel (x, y) of framebuffer fb reads back as.
PixelBytes(fb, x, y) ==
    SubSeq(as_bytes(fb), (y * fb.width + x) * fb.bpp + 1,
           (y * fb.width + x) * fb.bpp + fb.bpp)

\* C19: after clear(color), whatever the framebuffer held before, every
\* pixel inside it reads back as the raw bytes of color, for a colour of
\* equal bytes (filled byte by byte) and for a colour of differing bytes
\* (tiled); and for a colour of equal bytes, filling and tiling give the
\* same buffer.
C19_ClearReadsBack ==
    /\ call.op = "clear" =>
          \A x \in 0 .. framebuf.width - 1, y \in 0 .. framebuf.height - 1 :
              PixelBytes(framebuf, x, y) = into_raw_bytes(call.at[1])
    /\ \A c \in ColorsOf(framebuf) :
          all_bytes_same(into_raw_bytes(c)) =>
              clear_fill(framebuf, into_raw_bytes(c))
                  = clear_chunks(framebuf, into_raw_bytes(c))

\* A clear to a colour of differing bytes, after a draw, of a framebuffer
\* that held other content in a longer buffer.
C19_Witness ==
    /\ call.op = "clear" /\ prev.op = "draw_iter"
    /\ ~all_bytes_same(into_raw_bytes(call.at[1]))
    /\ Len(framebuf.buffer) > active_buffer_len(framebuf)
    /\ PixelBytes(framebuf, 2, 1) = into_raw_bytes(call.at[1])

\* Coordinate xy lies in [0, width) x [0, height) of framebuffer fb.
InBounds(fb, xy) ==
    xy \in (0 .. fb.width - 1) \X (0 .. fb.height - 1)

\* Byte j of the buffer of fb belongs to a pixel of the batch that lies
\* inside fb.
Covered(fb, pixels, j) ==
    \E i \in 1 .. Len(pixels) :
        /\ InBounds(fb, pixels[i].coord)
        /\ (j - 1) \div fb.bpp
              = pixels[i].coord[2] * fb.width + pixels[i].coord[1]

\* C20: draw() returns Ok and changes no byte but those of the pixels of
\* the batch that lie inside [0, width) x [0, height): a pixel at
\* (width, 0), at (0, height) or at a negative coordinate changes nothing,
\* and in a batch the pixels outside are skipped while those inside are
\* drawn.
C20_OutOfBoundsDropped ==
    [][call'.op = "draw_iter" =>
         /\ call'.res = Ok
         /\ Len(framebuf'.buffer) = Len(framebuf.buffer)
         /\ \A j \in 1 .. Len(framebuf.buffer) :
               ~Covered(framebuf, call'.at, j)
                   => framebuf'.buffer[j] = framebuf.buffer[j]
         /\ \A i \in 1 .. Len(call'.at) :
               (/\ InBounds(framebuf, call'.at[i].coord)
                /\ \A k \in i + 1 .. Len(call'.at) :
                       call'.at[k].coord # call'.at[i].coord)
                   => PixelBytes(framebuf', call'.at[i].coord[1],
                                 call'.at[i].coord[2])
                        = into_raw_bytes(call'.at[i].color)]_vars

\* A batch of a pixel at (width, 0) and a pixel inside, drawn after a
\* clear to another colour: the pixel inside has its colour, the first
\* pixel of the second row still has the cleared one.
C20_Witness ==
    /\ call.op = "draw_iter" /\ prev.op = "clear"
    /\ Len(call.at) = 2
    /\ call.at[1].coord = <<framebuf.width, 0>>
    /\ call.at[2].coord = <<2, 1>>
    /\ PixelBytes(framebuf, 2, 1) = into_raw_bytes(call.at[2].color)
    /\ PixelBytes(framebuf, 0, 1) # into_raw_bytes(call.at[1].color)


-----------------------------------------------------------------------------
(* Properties of drawing and filling                                       *)

\* The indices of the bytes of pixel xy in a buffer of the geometry of fb,
\* counted from 0: row after row, bytes_per_pixel for each pixel.
ByteRange(fb, xy) ==
    {(xy[2] * fb.width + xy[1]) * fb.bpp + d : d \in 0 .. fb.bpp - 1}

\* C21: draw() of a pixel of colour c at a coordinate (x, y) inside the
\* framebuffer writes the raw bytes of c at the byte indices
\* (y*width+x)*bytes_per_pixel .. +bytes_per_pixel and leaves every other
\* byte of the buffer as it was; the byte ranges of two different pixels
\* have no index in common.
C21_RowMajorBytes ==
    /\ [](\A p \in InCoords(framebuf), q \in InCoords(framebuf) :
            p # q => ByteRange(framebuf, p) \cap ByteRange(framebuf, q) = {})
    /\ [][(call'.op = "draw_iter" /\ Len(call'.at) = 1
              /\ call'.at[1].coord \in InCoords(framebuf)) =>
            /\ call'.res = Ok
            /\ Len(framebuf'.buffer) = Len(framebuf.buffer)
            /\ \A j \in 0 .. Len(framebuf.buffer) - 1 :
                  framebuf'.buffer[j + 1] =
                      IF j \in ByteRange(framebuf, call'.at[1].coord)
                      THEN into_raw_bytes(call'.at[1].color)[
                               j - (call'.at[1].coord[2] * framebuf.width
                                    + call'.at[1].coord[1]) * framebuf.bpp + 1]
                      ELSE framebuf.buffer[j + 1]]_vars

\* The pixel in the middle of the second row was drawn in the colour of
\* differing bytes on the Rgb888 framebuffer: bytes 12, 13, 14 hold it.
C21_Witness ==
    /\ call.op = "draw_iter" /\ Len(call.at) = 1
    /\ call.at[1].coord = <<1, 1>>
    /\ framebuf.bpp = 3
    /\ ~all_bytes_same(into_raw_bytes(call.at[1].color))
    /\ SubSeq(framebuf.buffer, 13, 15) = into_raw_bytes(call.at[1].color)
    /\ prev.op = "fill_solid"

\* The points of rectangle area that lie inside framebuffer fb.
Clipped(fb, area) ==
    {p \in InCoords(fb) :
        /\ area.top_left[1] <= p[1] /\ p[1] < area.top_left[1] + area.size[1]
        /\ area.top_left[2] <= p[2] /\ p[2] < area.top_left[2] + area.size[2]}

\* Framebuffer fb after draw(color, p) for every point p of the set ps.
RECURSIVE DrawnAt(_, _, _)
DrawnAt(fb, ps, color) ==
    IF ps = {} THEN fb
    ELSE LET p == CHOOSE q \in ps : TRUE
         IN DrawnAt(draw_iter(fb, <<[coord |-> p, color |-> color]>>),
                    ps \ {p}, color)

\* C22: fill_rectangle(area, color) leaves the buffer as it was when area
\* has no point inside the framebuffer, and otherwise has exactly the effect
\* of draw(color, p) for every point p of the intersection of area with the
\* framebuffer, also for areas partly outside or starting at negative
\* coordinates.
C22_FillIsDrawingTheIntersection ==
    [][call'.op = "fill_solid" =>
          /\ call'.res = Ok
          /\ Clipped(framebuf, call'.at[1]) = {} => framebuf' = framebuf
          /\ framebuf' = DrawnAt(framebuf, Clipped(framebuf, call'.at[1]),
                                 call'.at[2])]_vars

\* The area from (-1, -1) of size 2 x 2 was filled after a clear in the
\* other colour: of the framebuffer only the pixel (0, 0) has the fill
\* colour, its neighbours keep the cleared one.
C22_Witness ==
    /\ call.op = "fill_solid" /\ prev.op = "clear"
    /\ call.at[1] = [top_left |-> <<-1, -1>>, size |-> <<2, 2>>]
    /\ SubSeq(framebuf.buffer, 1, framebuf.bpp) = into_raw_bytes(call.at[2])
    /\ SubSeq(framebuf.buffer, framebuf.bpp + 1, 2 * framebuf.bpp)
           # into_raw_bytes(call.at[2])
    /\ SubSeq(framebuf.buffer, 3 * framebuf.bpp + 1, 4 * framebuf.bpp)
           # into_raw_bytes(call.at[2])

\* C23: constructing a framebuffer panics exactly when the backing storage
\* is shorter than width * height * bytes_per_pixel and succeeds when it is
\* equal or longer; width() and height() return the values given at
\* construction, which no operation changes.
C23_NewPanicsExactlyWhenShort ==
    [][/\ call'.op = "new" =>
            /\ (call'.res = AssertPanic) <=>
                   (call'.at[1] < call'.at[2] * call'.at[3] * call'.at[4])
            /\ (call'.res = Ok) <=>
                   (call'.at[1] >= call'.at[2] * call'.at[3] * call'.at[4])
            /\ IsOk(call'.res) =>
                   /\ framebuf'.width = call'.at[2]
                   /\ framebuf'.height = call'.at[3]
                   /\ Len(framebuf'.buffer) = call'.at[1]
       /\ Constructed =>
            /\ framebuf'.width = framebuf.width
            /\ framebuf'.height = framebuf.height
       /\ call'.op = "width" => call'.res = Returned(framebuf.width)
       /\ call'.op = "height" => call'.res = Returned(framebuf.height)]_vars

\* A framebuffer of 2 x 1 Rgb888 pixels was constructed over storage one
\* byte longer than needed and drawn on, and width() then returned 2.
C23_Witness ==
    /\ call.op = "width" /\ call.res = Returned(2)
    /\ prev.op = "draw_iter"
    /\ framebuf.height = 1 /\ framebuf.bpp = 3
    /\ Len(framebuf.buffer) = 7

\* C24: as_bytes() always has exactly width * height * bytes_per_pixel
\* bytes, and when the storage is longer no draw, clear or fill_rectangle
\* changes a byte at an index of width * height * bytes_per_pixel or more.
C24_OnlyTheActiveBytes ==
    /\ [](Len(as_bytes(framebuf))
              = framebuf.width * framebuf.height * framebuf.bpp)
    /\ [][call'.op \in {"draw_iter", "clear", "fill_solid"} =>
            /\ Len(framebuf'.buffer) = Len(framebuf.buffer)
            /\ \A j \in 0 .. Len(framebuf.buffer) - 1 :
                  j >= framebuf.width * framebuf.height * framebuf.bpp =>
                      framebuf'.buffer[j + 1] = framebuf.buffer[j + 1]]_vars

\* The framebuffer in storage two bytes longer than needed was cleared to
\* the colour of equal bytes after a fill: its 12 bytes are 255 and the two
\* bytes behind them are what they were at construction.
C24_Witness ==
    /\ call.op = "clear" /\ prev.op = "fill_solid"
    /\ Len(framebuf.buffer) = 14
    /\ as_bytes(framebuf) = [j \in 1 .. 12 |-> 255]
    /\ SubSeq(framebuf.buffer, 13, 14) = <<13, 14>>

-----------------------------------------------------------------------------
(* Properties of packing colours                                           *)

\* The 16-bit raw value of an Rgb565 colour: red in bits 15..11, green in
\* bits 10..5, blue in bits 4..0.
IsRawValue(v, color) ==
    /\ v \in 0 .. 65535
    /\ v \div 2048 = color.r
    /\ (v \div 32) % 64 = color.g
    /\ v % 32 = color.b

\* C25: packing a colour is a function of the colour and its format alone:
\* an Rgb565 colour of raw value v packs to the two bytes
\* [v div 256, v mod 256], an Rgb888 colour to its three bytes [r, g, b],
\* and packing the same colour again gives the same bytes.
C25_PackingIsPerFormat ==
    /\ [](call.op = "into_raw_bytes" =>
            LET color == call.at[1]
                v     == color.r * 2048 + color.g * 32 + color.b
            IN  IF color.fmt = "Rgb565"
                THEN /\ IsRawValue(v, color)
                     /\ call.res = Returned(<<v \div 256, v % 256>>)
                ELSE call.res = Returned(<<color.r, color.g, color.b>>))
    /\ [][(call.op = "into_raw_bytes" /\ call'.op = "into_raw_bytes"
              /\ call'.at = call.at) => call'.res = call.res]_vars

\* The Rgb565 colour (21, 42, 10) of raw value 0xAD4A was packed, as the
\* first call, to the bytes 0xAD, 0x4A, which differ.
C25_Witness ==
    /\ call.op = "into_raw_bytes" /\ prev.op = "none"
    /\ call.at[1] = [fmt |-> "Rgb565", r |-> 21, g |-> 42, b |-> 10]
    /\ call.res = Returned(<<173, 74>>)

-----------------------------------------------------------------------------
(* Properties of BitsPerPixel::from_rgb_color                              *)

\* The width in bits of a channel whose greatest value is max.
ChannelWidth(max) == CHOOSE w \in 0 .. 8 : 2 ^ w - 1 = max

\* The sum of the widths of the three channels of colour type C.
TotalWidth(C) ==
    ChannelWidth(C.MAX_R) + ChannelWidth(C.MAX_G) + ChannelWidth(C.MAX_B)

\* The variant of BitsPerPixel of each total it has a variant for.
VariantOf ==
    [t \in {3, 8, 12, 16, 18, 24} |->
        CASE t = 3 -> "Three" [] t = 8 -> "Eight" [] t = 12 -> "Twelve"
          [] t = 16 -> "Sixteen" [] t = 18 -> "Eighteen"
          [] t = 24 -> "TwentyFour"]

Rgb555 == [MAX_R |-> 31, MAX_G |-> 31, MAX_B |-> 31]
Rgb565 == [MAX_R |-> 31, MAX_G |-> 63, MAX_B |-> 31]
Rgb666 == [MAX_R |-> 63, MAX_G |-> 63, MAX_B |-> 63]
Rgb888 == [MAX_R |-> 255, MAX_G |-> 255, MAX_B |-> 255]

\* C27: BitsPerPixel::from_rgb_color maps a colour type to the sum of the
\* widths of its red, green and blue channels: 3, 8, 12, 16, 18 and 24 bits
\* give Three, Eight, Twelve, Sixteen, Eighteen and TwentyFour (Rgb565
\* Sixteen, Rgb666 Eighteen, Rgb888 TwentyFour), and every other total, as
\* the 15 bits of Rgb555, panics.
C27_BitsPerPixelOfTheTotal ==
    call.op = "from_rgb_color" =>
        /\ IF TotalWidth(call.at[1]) \in DOMAIN VariantOf
           THEN call.res = Returned(VariantOf[TotalWidth(call.at[1])])
           ELSE call.res = InvalidBppPanic
        /\ call.at[1] = Rgb565 => call.res = Returned("Sixteen")
        /\ call.at[1] = Rgb666 => call.res = Returned("Eighteen")
        /\ call.at[1] = Rgb888 => call.res = Returned("TwentyFour")
        /\ call.at[1] = Rgb555 => call.res = InvalidBppPanic

\* from_rgb_color::<Rgb555>() panicked after from_rgb_color of another
\* type returned.
C27_Witness ==
    /\ call.op = "from_rgb_color" /\ call.at[1] = Rgb555
    /\ call.res = InvalidBppPanic
    /\ prev.op = "from_rgb_color" /\ prev.ok

-----------------------------------------------------------------------------
(* Properties of two tasks on one transport                                *)

\* The calls of the address-window sequence of the transfer of task t, and
\* of that sequence followed by begin-memory-write.
Prologue(t) ==
    LET tr  == TaskTransfers[t]
        set == set_address_window(Machine(0, FALSE), "Mock", DefaultOptions,
                                  tr.at[1], tr.at[2],
                                  tr.at[1] + tr.at[3] - 1,
                                  tr.at[2] + tr.at[4] - 1)
    IN  [window |-> set.di, both |-> write_memory_start(set, "Mock").di]

\* The calls wire[from .. from + Len(calls) - 1] are calls, made by task t.
RunOf(wire, from, t, calls) ==
    /\ from >= 1
    /\ from + Len(calls) - 1 <= Len(wire)
    /\ \A i \in 1 .. Len(calls) :
          wire[from + i - 1] = [task |-> t, call |-> calls[i]]

\* C26: when each of two tasks sharing one transport runs its whole
\* transfer under a lock, every data burst the transport receives comes
\* right after the address-window sequence and the begin-memory-write of
\* the task that sends it, with no call of the other task in between;
\* without the lock the tasks interleave at the calls of the transport and
\* the data of one task can follow the address window of the other.
C26_LockKeepsTransfersWhole ==
    sharing.locking =>
        \A j \in 1 .. Len(sharing.wire) :
            sharing.wire[j].call.op = "send_data" =>
                /\ sharing.wire[j].call.args
                       = TaskTransfers[sharing.wire[j].task].data
                /\ RunOf(sharing.wire,
                         j - Len(Prologue(sharing.wire[j].task).both),
                         sharing.wire[j].task,
                         Prologue(sharing.wire[j].task).both)

\* Without the lock: the first task set its window, then the second set
\* its own, then the first sent begin-memory-write and its data, which go
\* to the window of the second.
C26_Witness ==
    /\ ~sharing.locking
    /\ Len(sharing.wire) = 14
    /\ RunOf(sharing.wire, 1, 1, Prologue(1).window)
    /\ RunOf(sharing.wire, 7, 2, Prologue(2).window)
    /\ sharing.wire[13].task = 1 /\ sharing.wire[13].call.cmd = 34
    /\ sharing.wire[14] = [task |-> 1,
                           call |-> [op |-> "send_data", cmd |-> 0,
                                     args |-> <<17, 17>>]]

-----------------------------------------------------------------------------
(* Properties of the words on the parallel bus                             *)

\* The words call c is to send, in order.
SentWords(c) == IF IsSendCommand(c) THEN <<c.cmd>> \o c.args ELSE c.args

\* The rising write-enable edges of successful strobes.
IsRise(e) == e.k = "wr" /\ e.lvl /\ e.ok
Rises(ev) == SelectSeq(ev, IsRise)

\* C28: on the parallel transport, after any sequence of send_command and
\* send_data calls, failed ones among them, the data pins hold at every
\* rising write-enable edge of a successful strobe exactly the bits of the
\* word being sent: the words sampled at the edges of a call are the words
\* it sends, in order and one edge for each, also for runs of equal words.
C28_EdgesCarryTheWords ==
    (kind # "Serial4Line" /\ (IsSendCommand(call) \/ IsSendData(call))) =>
        /\ Len(Rises(call.ev)) <= Len(SentWords(call))
        /\ \A i \in 1 .. Len(Rises(call.ev)) :
              Rises(call.ev)[i].busAt = <<SentWords(call)[i]>>
        /\ IsOk(call.res) => Len(Rises(call.ev)) = Len(SentWords(call))

\* A send_data of the same word twice succeeded right after a call that
\* failed: both edges sampled the word, and only the first strobe wrote
\* pins.
C28_Witness ==
    /\ kind = "Parallel8Bit"
    /\ IsSendData(call) /\ IsOk(call.res) /\ ~prev.ok
    /\ call.args = <<255, 255>>
    /\ call.lastBefore = None
    /\ Len(Rises(call.ev)) = 2
    /\ Rises(call.ev)[1].busAt = <<255>> /\ Rises(call.ev)[2].busAt = <<255>>
    /\ Len(SelectSeq(call.ev, LAMBDA e : e.k = "pin")) = 8

-----------------------------------------------------------------------------
(* Properties of the two widths of the generic bus                         *)

\* The pins whose bit differs between the words old and value on n pins.
Differing(old, value, n) == {i \in 0 .. n - 1 : Bit(old, i) # Bit(value, i)}

\* The pin operations of events ev on the pins below `below`: which pin,
\* to which level.
PinOps(ev, below) ==
    LET IsBelow(e) == e.k = "pin" /\ e.id < below
        sel == SelectSeq(ev, IsBelow)
    IN  [j \in 1 .. Len(sel) |-> <<sel[j].id, sel[j].lvl>>]

\* C29: the 8-pin and the 16-pin bus follow one rule: a successful
\* set_value(new) on a bus that remembers old writes exactly the pins whose
\* bit differs between old and new, high where the bit of new is 1 and low
\* where it is 0, in ascending order, each once, and no other pin; for
\* words below 256 the operations on pins 0..7 of the 16-pin bus are those
\* of the 8-pin bus in the same call.
C29_OneDiffRule ==
    (IsSetValue(call) /\ IsOk(call.res)) =>
        /\ call.lastBefore # None =>
              LET ops == PinOps(call.ev, BusWidth(kind))
                  D   == Differing(call.lastBefore[1], call.cmd, BusWidth(kind))
              IN  /\ Len(ops) = Len(call.ev)
                  /\ Len(ops) = Cardinality(D)
                  /\ \A j \in 1 .. Len(ops) :
                        /\ ops[j][1] \in D
                        /\ ops[j][2] = Bit(call.cmd, ops[j][1])
                        /\ \A h \in 1 .. j - 1 : ops[h][1] < ops[j][1]
        /\ (/\ kind = "Parallel16Bit" /\ call.cmd < 256
            /\ call.lastBefore # None => call.lastBefore[1] < 256) =>
              PinOps(call.ev, 8) =
                  PinOps(set_value([Machine(0, FALSE) EXCEPT
                                        !.last = call.lastBefore],
                                   call.cmd, 8).ev, 8)

\* The 16-pin bus held 0 and was set to 42: pins 1, 3 and 5 went high, as
\* on the 8-pin bus, and no other pin was written.
C29_Witness ==
    /\ kind = "Parallel16Bit"
    /\ IsSetValue(call) /\ IsOk(call.res)
    /\ call.lastBefore = Some(0) /\ call.cmd = 42
    /\ PinOps(call.ev, 16) = <<<<1, TRUE>>, <<3, TRUE>>, <<5, TRUE>>>>
    /\ last = Some(42)

-----------------------------------------------------------------------------
(* Properties of a transfer that fails                                     *)

\* The number of hardware operations of the address-window sequence of the
\* transfer c when nothing fails.
WindowOps(c) ==
    Len(set_address_window(Machine(0, FALSE), kind, options, c.at[1], c.at[2],
                           WrapU16(EndOf(c.at)[1]),
                           WrapU16(EndOf(c.at)[2])).ev)

\* Sequence a is the beginning of sequence b.
IsPrefix(a, b) == Len(a) <= Len(b) /\ a = SubSeq(b, 1, Len(a))

IsBeginWrite(d) == d.op = "send_command" /\ d.cmd = 34
IsData(d) == d.op = "send_data"

\* C30: a transfer whose address-window step fails returns that error and
\* issues neither begin-memory-write nor data; one whose begin-memory-write
\* fails sends no data; and every transfer, whatever happened before it,
\* issues the whole address-window sequence before its data: no window is
\* remembered from an earlier transfer.
C30_FailedStepEndsTheTransfer ==
    (IsShowRawData(call) /\ ~Panicked(call.res)) =>
        /\ call.di # <<>>
        /\ IsPrefix(call.di, TransferSequence(call))
        /\ IsOk(call.res) => call.di = TransferSequence(call)
        /\ \A j \in 1 .. Len(call.di) :
              IsData(call.di[j]) =>
                  /\ j = Len(WindowThenStart(call).window) + 2
                  /\ SubSeq(call.di, 1, j - 2) = WindowThenStart(call).window
                  /\ IsBeginWrite(call.di[j - 1])
        /\ ~IsOk(call.res) =>
              /\ TransportError(call)
              /\ Len(call.ev) <= WindowOps(call) =>
                    \A j \in 1 .. Len(call.di) :
                        ~IsBeginWrite(call.di[j]) /\ ~IsData(call.di[j])
              /\ (/\ Len(call.ev) > WindowOps(call)
                  /\ Len(call.ev) <= Len(WindowThenStart(call).both.ev)) =>
                    /\ IsBeginWrite(call.di[Len(call.di)])
                    /\ \A j \in 1 .. Len(call.di) : ~IsData(call.di[j])

\* The third window command of a transfer failed: three commands were
\* issued, none of them begin-memory-write, and no data; the transfer
\* before it had succeeded.
C30_Witness ==
    /\ IsShowRawData(call) /\ ~IsOk(call.res)
    /\ prev.op = "show_raw_data" /\ prev.ok
    /\ Len(call.di) = 3
    /\ call.di = SubSeq(WindowThenStart(call).window, 1, 3)
    /\ call.args # <<>>

-----------------------------------------------------------------------------
(* Properties of transfers after different histories                       *)

\* The address window of a transfer as a function of the stored
\* orientation, the display offset, the display size, the framebuffer size
\* and the rectangle (x, y, width, height), and of nothing else: the
\* rotation and the window (sx, sy, ex, ey) handed to the controller.
WindowFrom(orientation, display_offset, display_size, fb, at) ==
    LET mapping == MemoryMapping(orientation)
        x == IF mapping.reverse_columns
             THEN fb[1] - (display_size[1] + display_offset[1])
             ELSE display_offset[1]
        y == IF mapping.reverse_rows
             THEN fb[2] - (display_size[2] + display_offset[2])
             ELSE display_offset[2]
        off == IF mapping.swap_rows_and_columns THEN <<y, x>> ELSE <<x, y>>
    IN  <<orientation.rotation,
          at[1] + off[1], at[2] + off[2],
          at[1] + at[3] - 1 + off[1], at[2] + at[4] - 1 + off[2]>>

\* The commands of the controller for rotation and window w, when nothing
\* fails.
WindowCommands(w) ==
    update_address_window(Machine(0, FALSE), kind, w[1], w[2], w[3], w[4],
                          w[5]).di

\* C31: the address window a transfer issues is a function of the stored
\* orientation, the display offset, the display size, the framebuffer size
\* and the requested rectangle alone: whatever transfers, orientation
\* changes, sleep and wake calls and failures came before, devices equal in
\* these issue the same window, and a transfer after set_orientation(o)
\* uses the mapping of o.
C31_WindowOfStoredOptionsOnly ==
    /\ [](IsShowRawData(call) =>
            LET w == WindowFrom(options.orientation, options.display_offset,
                                options.display_size, framebuffer_size,
                                call.at)
            IN  /\ WindowSet(call)
                /\ FirstHook(call).args = w
                /\ IsPrefix(call.di, WindowCommands(w)) \/
                       IsPrefix(WindowCommands(w), call.di))
    /\ [][(IsSetOrientation(call) /\ IsShowRawData(call')) =>
            FirstHook(call').args =
                WindowFrom(call.at[1], options.display_offset,
                           options.display_size, framebuffer_size,
                           call'.at)]_vars

\* A transfer on a sleeping display right after a set_orientation to a
\* quarter turn that failed: the window is that of the quarter turn, the
\* start moved by (3, 4).
C31_Witness ==
    /\ IsShowRawData(call) /\ IsOk(call.res)
    /\ prev.op = "set_orientation" /\ ~prev.ok
    /\ sleeping
    /\ options.orientation = [rotation |-> "Deg90", mirrored |-> FALSE]
    /\ FirstHook(call).args = <<"Deg90", 4, 6, 5, 6>>

-----------------------------------------------------------------------------
(* Properties of the arithmetic of the window                              *)

\* C32: a transfer of (x, y, width, height) with width >= 1 and height >= 1
\* whose end (x+width-1, y+height-1) and translated corners fit in 16 bits
\* computes that end with no overflow on the way, x + width = 65536
\* included, and hands the controller a window ending at end + offset.
C32_EndWithoutOverflow ==
    LET off == RuleOffset(options, framebuffer_size)
        end == EndOf(call.at)
    IN  (/\ IsShowRawData(call)
         /\ call.at[3] >= 1 /\ call.at[4] >= 1
         /\ off[1] \in 0 .. 65535 /\ off[2] \in 0 .. 65535
         /\ FitsU16(Translated(call.at, off)))
           => /\ ~Panicked(call.res)
              /\ WindowSet(call)
              /\ WindowOf(call)[3] = end[1] + off[1]
              /\ WindowOf(call)[4] = end[2] + off[2]

\* The panel of options o lies inside a framebuffer of size fb.
PanelInside(o, fb) ==
    \A i \in 1 .. 2 : o.display_offset[i] + o.display_size[i] <= fb[i]

\* The offset call c used, axis by axis of the panel: the swap undone.
OwnAxisOffset(c) ==
    IF MemoryMapping(options.orientation).swap_rows_and_columns
    THEN <<UsedOffset(c)[2], UsedOffset(c)[1]>>
    ELSE UsedOffset(c)

\* C33: when display offset + display size <= framebuffer size on each
\* axis, then for every combination of swap, reverse_rows and
\* reverse_columns the subtraction framebuffer size - (display size +
\* offset) does not underflow 16 bits (a transfer panics only over its own
\* rectangle), and each reversed offset o' has o' + display size <=
\* framebuffer size on its axis.
C33_ReversedOffsetInside ==
    LET mapping == MemoryMapping(options.orientation)
        own     == OwnAxisOffset(call)
    IN  PanelInside(options, framebuffer_size)
          => /\ ~PhysicalOffset(options, framebuffer_size).ovf
             /\ (IsShowRawData(call) /\ Panicked(call.res))
                   => \/ call.at[1] + call.at[3] > 65535
                      \/ call.at[2] + call.at[4] > 65535
                      \/ ~FitsU16(Translated(call.at,
                                RuleOffset(options, framebuffer_size)))
             /\ (IsShowRawData(call) /\ WindowSet(call))
                   => /\ mapping.reverse_columns
                           => own[1] + options.display_size[1]
                                 <= framebuffer_size[1]
                      /\ mapping.reverse_rows
                           => own[2] + options.display_size[2]
                                 <= framebuffer_size[2]

\* A transfer of a build with overflow checks, both axes reversed and
\* swapped, on the 5x4 panel at (1,3) of the 8x8 framebuffer: the offsets
\* 2 and 1 on the panel's axes, handed over swapped.
C33_Witness ==
    /\ IsShowRawData(call) /\ IsOk(call.res)
    /\ overflow_checks
    /\ MemoryMapping(options.orientation) =
          [reverse_rows |-> TRUE, reverse_columns |-> TRUE,
           swap_rows_and_columns |-> TRUE]
    /\ options.display_size = <<5, 4>>
    /\ OwnAxisOffset(call) = <<2, 1>>
    /\ UsedOffset(call) = <<1, 2>>

-----------------------------------------------------------------------------
(* Properties of the selector under display operations                     *)

\* Call c handed pixel data to the transport.
SentData(c) == \E i \in 1 .. Len(c.di) : IsData(c.di[i])

\* The position of the last selector operation of call c (0: none).
RECURSIVE LastDc(_, _)
LastDc(ev, j) ==
    IF j = 0 \/ ev[j].k = "dc" THEN j ELSE LastDc(ev, j - 1)

\* The hardware operations of the send_data of transfer c: show_raw_data
\* ends with begin-memory-write, which has no parameters, and send_data;
\* send_data performs no selector operation, so they are the operations
\* after the last selector operation.
DataOps(c) ==
    IF SentData(c)
    THEN SubSeq(c.ev, LastDc(c.ev, Len(c.ev)) + 1, Len(c.ev))
    ELSE <<>>

\* C34: through display operations alone, in every reachable state, also
\* after failed commands that left the selector low, a transfer transmits
\* pixel data words only while the selector is high: it hands data to the
\* transport only after begin-memory-write succeeded, which ends with the
\* selector high.
C34_PixelsWithSelectorHigh ==
    IsShowRawData(call) =>
        /\ \A j \in 1 .. Len(DataOps(call)) :
               Transmits(DataOps(call)[j]) => DataOps(call)[j].dcAt = TRUE
        /\ SentData(call) =>
               /\ Len(call.di) = 8
               /\ IsBeginWrite(call.di[7])
               /\ call.ev[LastDc(call.ev, Len(call.ev))].lvl
               /\ call.ev[LastDc(call.ev, Len(call.ev))].ok
        /\ ~SentData(call) =>
               \A j \in 1 .. Len(call.ev) :
                  Transmits(call.ev[j]) => call.ev[j].data # call.args

\* A transfer on the parallel transport that transmitted both its words,
\* made right after a call that failed and left the selector low.
C34_Witness ==
    /\ kind = "Parallel8Bit"
    /\ IsShowRawData(call) /\ IsOk(call.res)
    /\ ~prev.ok /\ prev.dc = FALSE
    /\ Len(DataOps(call)) > 2
    /\ \E j \in 1 .. Len(DataOps(call)) :
          /\ Transmits(DataOps(call)[j])
          /\ DataOps(call)[j].busAt = <<255>>
          /\ DataOps(call)[j].dcAt = TRUE

-----------------------------------------------------------------------------
(* Properties of clearing, drawing and filling in sequence                 *)

\* The colour call c wrote last at pixel xy, if it covered it: clear covers
\* every pixel, fill_solid the pixels of its area, draw_iter the
\* coordinates of its batch, the later entry over the earlier.
LastWriter(c, xy) ==
    IF c.op = "clear" THEN Some(c.at[1])
    ELSE IF c.op = "fill_solid"
    THEN IF /\ xy[1] >= c.at[1].top_left[1]
            /\ xy[1] < c.at[1].top_left[1] + c.at[1].size[1]
            /\ xy[2] >= c.at[1].top_left[2]
            /\ xy[2] < c.at[1].top_left[2] + c.at[1].size[2]
         THEN Some(c.at[2]) ELSE None
    ELSE LET at == {i \in 1 .. Len(c.at) : c.at[i].coord = xy}
         IN  IF at = {} THEN None
             ELSE Some(c.at[CHOOSE i \in at : \A j \in at : j <= i].color)

\* C35: after any sequence of clear, draw and fill_rectangle each
\* in-bounds pixel holds the raw bytes of the colour of the last operation
\* that covered it, the later of two entries of one draw batch with the
\* same coordinate included, or its initial bytes if none covered it: each
\* operation leaves the pixels it does not cover as they were and the
\* pixels it covers with the bytes of its colour.
C35_LastWriterWins ==
    /\ [](\A xy \in InCoords(framebuf) :
            \/ \E fb \in PaintFrameBufs :
                  PixelBytes(framebuf, xy[1], xy[2])
                     = PixelBytes(fb, xy[1], xy[2])
            \/ \E c \in ColorsOf(framebuf) :
                  PixelBytes(framebuf, xy[1], xy[2]) = into_raw_bytes(c))
    /\ [][/\ framebuf'.width = framebuf.width
          /\ framebuf'.height = framebuf.height
          /\ \A xy \in InCoords(framebuf) :
                PixelBytes(framebuf', xy[1], xy[2]) =
                   IF LastWriter(call', xy) = None
                   THEN PixelBytes(framebuf, xy[1], xy[2])
                   ELSE into_raw_bytes(LastWriter(call', xy)[1])]_vars

\* A batch that drew the last pixel twice, in two colours, on a framebuffer
\* where a fill had coloured the middle column and the first pixel still
\* holds its initial bytes.
C35_Witness ==
    /\ call.op = "draw_iter" /\ Len(call.at) = 2
    /\ call.at[1].coord = <<2, 1>> /\ call.at[2].coord = <<2, 1>>
    /\ into_raw_bytes(call.at[1].color) # into_raw_bytes(call.at[2].color)
    /\ PixelBytes(framebuf, 2, 1) = into_raw_bytes(call.at[2].color)
    /\ PixelBytes(framebuf, 1, 0) = into_raw_bytes(call.at[1].color)
    /\ PixelBytes(framebuf, 0, 0) = <<1, 2>>

-----------------------------------------------------------------------------
(* Properties of the sleep and wake sequences of the ILI9225               *)

\* The commands among the Interface calls di.
CommandsOf(di) == SelectSeq(di, LAMBDA d : d.op = "send_command")

\* Call c on the serial transport, where a command is four hardware
\* operations, ran the sequence seq up to its first failing command:
\* what it issued is a beginning of seq; when nothing failed it is the
\* whole of seq; when an operation failed it is the last operation of the
\* call and one of the last command issued, after which nothing follows.
RunsUpToFailure(c, seq) ==
    /\ c.di # <<>>
    /\ IsPrefix(c.di, seq)
    /\ \A j \in 1 .. Len(c.ev) - 1 : c.ev[j].ok
    /\ IsOk(c.res) <=> NoFault(c)
    /\ NoFault(c) => c.di = seq
    /\ Len(c.ev) > 4 * (Len(CommandsOf(c.di)) - 1)
    /\ Len(c.ev) <= 4 * Len(CommandsOf(c.di))
    /\ ~NoFault(c) => c.di[Len(c.di)].op = "send_command"

\* C36: the sleep hook of the ILI9225 issues 0x07 [0x00,0x00], waits
\* 50 ms, issues 0x11 [0x00,0x07], waits 50 ms, then issues 0x10
\* [0x0A,0x01]; the wake hook issues 0x10 [0x0A,0x00], then 0x11
\* [0x10,0x3B], waits 50 ms, then issues 0x07 [0x10,0x17]; each wait
\* happens only after the command before it succeeded, and a failing
\* command ends the sequence with no later command or wait.
C36_PowerSequences ==
    /\ IsSleep(call) =>
          /\ FirstHook(call).hook = "sleep"
          /\ RunsUpToFailure(call,
                <<[op |-> "send_command", cmd |-> 7,  args |-> <<0, 0>>],
                  [op |-> "delay_us", cmd |-> 50 * 1000, args |-> <<>>],
                  [op |-> "send_command", cmd |-> 17, args |-> <<0, 7>>],
                  [op |-> "delay_us", cmd |-> 50 * 1000, args |-> <<>>],
                  [op |-> "send_command", cmd |-> 16, args |-> <<10, 1>>]>>)
    /\ IsWake(call) =>
          /\ FirstHook(call).hook = "wake"
          /\ RunsUpToFailure(call,
                <<[op |-> "send_command", cmd |-> 16, args |-> <<10, 0>>],
                  [op |-> "send_command", cmd |-> 17, args |-> <<16, 59>>],
                  [op |-> "delay_us", cmd |-> 50 * 1000, args |-> <<>>],
                  [op |-> "send_command", cmd |-> 7,  args |-> <<16, 23>>]>>)

\* A sleep whose second command failed at its parameter bytes: one wait
\* before it, none after it, and the third command never issued.
C36_Witness ==
    /\ IsSleep(call) /\ ~IsOk(call.res)
    /\ Len(call.di) = 3
    /\ call.di[2].op = "delay_us"
    /\ call.di[3] = [op |-> "send_command", cmd |-> 17, args |-> <<0, 7>>]
    /\ Len(call.ev) = 8 /\ ~call.ev[8].ok

-----------------------------------------------------------------------------
(* Properties of the registers of the ILI9225                              *)

\* The command that writes the 16-bit value v to register reg: the high
\* byte, then the low byte.
Register(reg, v) ==
    [op |-> "send_command", cmd |-> reg,
     args |-> <<(v - (v % 256)) \div 256, v % 256>>]

\* The six commands of the window (sx, sy, ex, ey) under a rotation.
WindowRegisters(rotation, sx, sy, ex, ey) ==
    IF rotation \in {"Deg0", "Deg180"}
    THEN <<Register(55, sx), Register(54, ex), Register(57, sy),
           Register(56, ey), Register(32, sx), Register(33, sy)>>
    ELSE <<Register(57, sx), Register(56, ex), Register(55, sy),
           Register(54, ey), Register(33, sx), Register(32, sy)>>

OptionRegisters(rotation, color_order) ==
    <<[op |-> "send_command", cmd |-> 1,
       args |-> <<CASE rotation = "Deg0"   -> 1
                    [] rotation = "Deg90"  -> 0
                    [] rotation = "Deg180" -> 2
                    [] rotation = "Deg270" -> 3,
                  28>>],
      [op |-> "send_command", cmd |-> 3,
       args |-> <<IF color_order = "Bgr" THEN 16 ELSE 0,
                  IF rotation \in {"Deg90", "Deg270"} THEN 56 ELSE 48>>]>>

\* C38: the commands of the option-update hook depend only on the rotation
\* and the colour order: 0x01 with high byte 0x01, 0x00, 0x02, 0x03 for 0,
\* 90, 180, 270 degrees and low byte 0x1C, then 0x03 with 0x00 or 0x10 by
\* colour order and 0x38 or 0x30 by rotation.is_vertical(); two
\* orientations that differ only in mirrored produce identical commands.
C38_OptionRegisters ==
    IsSetOrientation(call) =>
        LET regs == OptionRegisters(call.at[1].rotation, options.color_order)
        IN  /\ FirstHook(call).hook = "update_options"
            /\ call.di # <<>>
            /\ IsPrefix(call.di, regs)
            /\ IsOk(call.res) => call.di = regs
            /\ OptionRegisters(call.at[1].rotation, options.color_order)
                  = update_options(Machine(0, FALSE), kind,
                        [options EXCEPT
                            !.orientation.mirrored = ~@]).di

\* A set_orientation to 90 degrees mirrored on a display of colour order
\* Bgr: 0x01 [0x00, 0x1C], then 0x03 [0x10, 0x38].
C38_Witness ==
    /\ IsSetOrientation(call) /\ IsOk(call.res)
    /\ call.at[1] = [rotation |-> "Deg90", mirrored |-> TRUE]
    /\ options.color_order = "Bgr"
    /\ call.di = <<[op |-> "send_command", cmd |-> 1, args |-> <<0, 28>>],
                   [op |-> "send_command", cmd |-> 3, args |-> <<16, 56>>]>>

-----------------------------------------------------------------------------
(* Properties of TakeSkip                                                  *)

\* The elements of iter at the positions p, counted from 0, with
\* p mod (take + skip) < take, in order.
RECURSIVE Taken(_, _, _, _)
Taken(iter, take, skip, p) ==
    IF p >= Len(iter) THEN <<>>
    ELSE (IF take + skip > 0 /\ p % (take + skip) < take
          THEN <<iter[p + 1]>> ELSE <<>>)
         \o Taken(iter, take, skip, p + 1)

\* C39: TakeSkip::new(iter, take, skip) yields, in order, exactly the
\* elements of iter at the positions p with p mod (take + skip) < take,
\* and returns None once the underlying iterator is exhausted; with
\* take = 0 the first next() returns None, with no underflow and without
\* running on for ever.
C39_TakesThenSkips ==
    /\ [](LET iter  == call.at[1]
              take  == call.at[2]
              skip  == call.at[3]
              taken == Taken(iter, take, skip, 0)
          IN  call.op \in {"new", "next"} =>
                /\ ~Panicked(call.res)
                /\ IsPrefix(call.args, taken)
                /\ take_skip.take_remaining[1] = 0
                /\ take_skip.take_remaining[2] <= take
                /\ call.op = "next" =>
                      /\ call.res.val # None =>
                            /\ call.args # <<>>
                            /\ call.res.val = Some(call.args[Len(call.args)])
                      /\ call.res.val = None =>
                            /\ call.args = taken
                            /\ take_skip.iter = <<>> \/ take = 0
                      /\ take = 0 =>
                            /\ call.res.val = None
                            /\ take_skip.iter = iter)
    /\ [][(call'.op = "next" /\ take_skip.iter = <<>>)
             => (call'.res.val = None /\ call'.args = call.args)]_vars

\* The test of graphics.rs: eleven elements, take 3, skip 2, after the
\* eighth next(), which returned None: the elements at the positions 0, 1,
\* 2, 5, 6, 7 and 10 were yielded.
C39_Witness ==
    /\ call.op = "next" /\ call.cmd = 8
    /\ Len(call.at[1]) = 11 /\ call.at[2] = 3 /\ call.at[3] = 2
    /\ call.args = <<10, 20, 30, 60, 70, 80, 110>>
    /\ call.res = Returned(None)

=============================================================================
